---- MODULE Spec2Model ----
(***************************************************************************)
(* Provably-fair Mines: the outcome engine (generateBombLocations,         *)
(* calculateMultiplier) and the round state machines of SoloMinesGame and  *)
(* MultiplayerMinesGame.                                                   *)
(*                                                                         *)
(* Conventions.                                                            *)
(*  - A JS string is a sequence of character codes (ASCII).                *)
(*  - A JS number that can be NaN/undefined is an integer or NaN.          *)
(*  - A JS double that is read as an exact value (multiplier,              *)
(*    chance) is a reduced fraction <<num, den>>.                          *)
(*  - Arrays keep the source's 0-based indices: functions on 0..n-1.       *)
(*  - TLC's integers are 32-bit signed; an unsigned 32-bit hash segment is *)
(*    never held as one integer: parseInt(seg,16) % m is computed digit by *)
(*    digit (Horner), which is the same number.                            *)
(***************************************************************************)
EXTENDS Integers, Sequences, FiniteSets, TLC

VARIABLES
    gblArgs,     \* shuffle: the arguments of the invocation under way
    gblResult,   \* shuffle: its result, once it has returned
    gblCalls,    \* shuffle: the log of returned invocations (args, result)
    mArgs,       \* multiplier: the current (safeRevealed, bombCount)
    mOut,        \* multiplier: calculateMultiplier at mArgs
    mPrev,       \* multiplier: the previous (args, out)
    solo,        \* SoloMinesGame: the reducer state (useReducer)
    soloServerSeed,  \* SoloMinesGame: useState('') serverSeed
    prevGameState,   \* SoloMinesGame: the prevGameState ref
    soloEffect,  \* SoloMinesGame: the finish effect is due (a dependency changed)
    soloOp,      \* SoloMinesGame: the last handler called, its argument, whether it changed the reducer state
    totalGames,  \* StatsContext: number of recorded games
    userProfile, \* StatsContext: the profile (clientSeed, <<>> when absent)
    games,       \* StatsContext: the records passed to addGame, in order
    duelSettings,    \* MultiplayerMinesGame: the settings prop
    duel,        \* MultiplayerMinesGame: useState GameState, the current value
    duelRender,  \* MultiplayerMinesGame: the state of the latest render (what closures see)
    coinflip,    \* MultiplayerMinesGame: useState CoinflipState
    duelEffects, \* MultiplayerMinesGame: the effects due ("settings", "turn")
    botTimer,    \* MultiplayerMinesGame: the pending setTimeout and the state its closure holds
    duelHung,    \* MultiplayerMinesGame: a call that never returns is under way
    duelOp       \* MultiplayerMinesGame: the last handler called, its tile and side, how it ended

shuffleVars == <<gblArgs, gblResult, gblCalls>>
multVars == <<mArgs, mOut, mPrev>>
soloVars == <<solo, soloServerSeed, prevGameState, soloEffect, soloOp>>
statsVars == <<totalGames, userProfile, games>>
duelVars == <<duelSettings, duel, duelRender, coinflip, duelEffects, botTimer, duelHung,
              duelOp>>
vars == <<gblArgs, gblResult, gblCalls, mArgs, mOut, mPrev,
          solo, soloServerSeed, prevGameState, soloEffect, soloOp,
          totalGames, userProfile, games,
          duelSettings, duel, duelRender, coinflip, duelEffects, botTimer, duelHung,
          duelOp>>

(***************************************************************************)
(* Bounds of the model.                                                    *)
(***************************************************************************)
MaxCalls == 2        \* invocations of generateBombLocations kept in gblCalls
MaxNonce == 2        \* nonces drawn for the shuffle: 1..MaxNonce
MaxGames == 2        \* rounds started per session (a round starts while totalGames < MaxGames)
MaxClickTile == 3    \* the tiles clicked are 0..MaxClickTile
MaxGameSeed == 3     \* Date.now() at mount and at the settings effect: 1..MaxGameSeed
MaxDuelMoves == 4    \* tiles revealed by moves in one duel round
MaxRounds == 3       \* rounds a player starts in one session
MaxChoices == 2      \* a duel move picks among the first MaxChoices unrevealed tiles

(***************************************************************************)
(* Program constants.                                                      *)
(***************************************************************************)
TotalTiles == 25     \* Array.from({ length: 25 }), totalTiles = 25
SegmentLen == 8      \* 8 hex characters = 32 bits
DigestLen == 64      \* SHA256 as a hex string
NaN == 0 - 1000000   \* NaN / undefined: outside every number the model draws
Null == 0 - 1000001  \* null (what JSON makes of NaN)

isNaN(x) == x = NaN

Min(a, b) == IF a < b THEN a ELSE b
Max(a, b) == IF a > b THEN a ELSE b

(***************************************************************************)
(* Strings.                                                                *)
(***************************************************************************)
Hyphen == <<45>>                       \* "-"
RECURSIVE Digits(_)
Digits(n) == IF n < 10 THEN <<48 + n>> ELSE Digits(n \div 10) \o <<48 + (n % 10)>>
\* `${nonce}` : Number.prototype.toString, "NaN" for NaN.
numberToString(n) ==
    IF isNaN(n) THEN <<78, 97, 78>>
    ELSE IF n < 0 THEN <<45>> \o Digits(0 - n)
    ELSE Digits(n)
\* String.prototype.substring(start, end) for 0 <= start <= end <= length.
substring(s, start, end) == SubSeq(s, start + 1, end)

\* 'not_available', the solo fallback client seed.
NotAvailable == <<110, 111, 116, 95, 97, 118, 97, 105, 108, 97, 98, 108, 101>>
\* Sample seeds: "a1", "b2" (server), "c" (client).
SeedA == <<97, 49>>
SeedB == <<98, 50>>
ClientC == <<99>>

HexChar(v) == IF v < 10 THEN 48 + v ELSE 87 + v
HexVal(c) == IF c >= 97 THEN c - 87 ELSE c - 48

\* parseInt(seg, 16) % m for a segment of hex digits, without ever holding
\* the 32-bit value: ((...(d1*16 + d2)*16 ...) + dk) mod m.
RECURSIVE parseIntMod(_, _, _, _)
parseIntMod(seg, k, acc, m) ==
    IF k > Len(seg) THEN acc
    ELSE parseIntMod(seg, k + 1, (acc * 16 + HexVal(seg[k])) % m, m)

(***************************************************************************)
(* crypto.SHA256(x).toString(crypto.enc.Hex): a library function.  Its     *)
(* stand-in is a deterministic function from strings to 64 lowercase hex   *)
(* characters (a tree-shaped absorb of the characters, then one mixed      *)
(* digit per output position).  The model relies only on its being a       *)
(* function with that range.                                               *)
(***************************************************************************)
RECURSIVE Absorb(_, _, _)
Absorb(str, lo, hi) ==
    IF lo > hi THEN 7
    ELSE IF lo = hi THEN (str[lo] * 257 + lo) % 32749
    ELSE LET mid == (lo + hi) \div 2
         IN  (Absorb(str, lo, mid) * 131 + Absorb(str, mid + 1, hi) * 7 + (hi - lo)) % 32749
Squeeze(h, k) == (((h + k) * (h + 31 * k + 7)) \div 16) % 16
SHA256(str) ==
    LET h == Absorb(str, 1, Len(str))
    IN  [k \in 1..DigestLen |-> HexChar(Squeeze(h, k))]

(***************************************************************************)
(* generateBombLocations (solo copy, src/unnamed/part_000:433-454).        *)
(***************************************************************************)
\* Array.from({ length: 25 }, (_, i) => i)
IdentityTiles == [i \in 0..(TotalTiles - 1) |-> i]

\* [tiles[i], tiles[j]] = [tiles[j], tiles[i]] with only one side assigned.
SwapOneSided(tiles, i, j) == [tiles EXCEPT ![i] = tiles[j]]
\* [tiles[i], tiles[j]] = [tiles[j], tiles[i]]
Swap(tiles, i, j) == [tiles EXCEPT ![i] = tiles[j], ![j] = tiles[i]]

\* The loop body reading the digest's first segment at every step.
SwapPartnerFirstSegment(currentHash, i) ==
    parseIntMod(substring(currentHash, 0, SegmentLen), 1, 0, i + 1)
\* The loop body's choice of j at step i from the current digest.
SwapPartner(currentHash, i) ==
    LET hashSegment == substring(currentHash, (i % 8) * SegmentLen,
                                 ((i % 8) * SegmentLen) + SegmentLen)
    IN  parseIntMod(hashSegment, 1, 0, i + 1)

\* for (let i = tiles.length - 1; i > 0; i--) { ... }
RECURSIVE Solo_shuffleLoop(_, _, _)
Solo_shuffleLoop(tiles, i, currentHash) ==
    IF i > 0
    THEN Solo_shuffleLoop(Swap(tiles, i, SwapPartner(currentHash, i)),
                          i - 1, SHA256(currentHash))
    ELSE tiles

combinedSeed(serverSeed, clientSeed, nonce) ==
    serverSeed \o Hyphen \o clientSeed \o Hyphen \o numberToString(nonce)

\* The shuffled array before the slice.
Solo_shuffled(serverSeed, clientSeed, nonce) ==
    Solo_shuffleLoop(IdentityTiles, TotalTiles - 1,
                     SHA256(combinedSeed(serverSeed, clientSeed, nonce)))

\* Array.prototype.slice(0, end) of an array of length len, as a list.
slice0(arr, len, end) ==
    LET e == IF end < 0 THEN Max(len + end, 0) ELSE Min(end, len)
    IN  [k \in 1..e |-> arr[k - 1]]

Solo_generateBombLocations(serverSeed, clientSeed, nonce, bombCount) ==
    IF serverSeed = <<>> \/ clientSeed = <<>> \/ isNaN(nonce) \/ isNaN(bombCount)
    THEN <<>>
    ELSE slice0(Solo_shuffled(serverSeed, clientSeed, nonce), TotalTiles, bombCount)

(***************************************************************************)
(* generateBombLocations (duel copy, MultiplayerMinesGame.tsx:358-379).    *)
(***************************************************************************)
RECURSIVE Duel_shuffleLoop(_, _, _)
Duel_shuffleLoop(tiles, i, currentHash) ==
    IF i > 0
    THEN Duel_shuffleLoop(Swap(tiles, i, SwapPartner(currentHash, i)),
                          i - 1, SHA256(currentHash))
    ELSE tiles

Duel_shuffled(serverSeed, clientSeed, nonce) ==
    Duel_shuffleLoop(IdentityTiles, TotalTiles - 1,
                     SHA256(combinedSeed(serverSeed, clientSeed, nonce)))

\* A copy that shuffles under the nonce after the one it is given.
Duel_generateBombLocationsAhead(serverSeed, clientSeed, nonce, bombCount) ==
    IF serverSeed = <<>> \/ clientSeed = <<>> \/ isNaN(nonce) \/ isNaN(bombCount)
    THEN <<>>
    ELSE slice0(Duel_shuffled(serverSeed, clientSeed, nonce + 1), TotalTiles, bombCount)

Duel_generateBombLocations(serverSeed, clientSeed, nonce, bombCount) ==
    IF serverSeed = <<>> \/ clientSeed = <<>> \/ isNaN(nonce) \/ isNaN(bombCount)
    THEN <<>>
    ELSE slice0(Duel_shuffled(serverSeed, clientSeed, nonce), TotalTiles, bombCount)

(***************************************************************************)
(* Exact fractions <<num, den>>, den > 0, in lowest terms; <<1, 0>> is     *)
(* Infinity (x / 0 for x > 0).                                             *)
(***************************************************************************)
RECURSIVE GCD(_, _)
GCD(a, b) == IF b = 0 THEN a ELSE GCD(b, a % b)
Abs(a) == IF a < 0 THEN 0 - a ELSE a
Infinity == <<1, 0>>
Frac(n, d) ==
    IF d = 0 THEN Infinity
    ELSE LET g == GCD(Abs(n), Abs(d))
             sgn == IF d < 0 THEN 0 - 1 ELSE 1
         IN  <<sgn * (n \div g), sgn * (d \div g)>>
\* a * b, cancelling across before multiplying (no 32-bit overflow).
FracMul(a, b) ==
    LET x == Frac(a[1], b[2])
        y == Frac(b[1], a[2])
    IN  <<x[1] * y[1], x[2] * y[2]>>
\* a / b for b >= 0.
FracDiv(a, b) == IF b[1] = 0 THEN Infinity ELSE FracMul(a, <<b[2], b[1]>>)
\* a < b for non-negative fractions, by integer parts and then the
\* reciprocals of the fractional parts (no cross-multiplication).
RECURSIVE FracLess(_, _)
FracLess(a, b) ==
    IF a[2] = 0 THEN FALSE
    ELSE IF b[2] = 0 THEN TRUE
    ELSE LET qa == a[1] \div a[2]
             qb == b[1] \div b[2]
             ra == a[1] % a[2]
             rb == b[1] % b[2]
         IN  IF qa # qb THEN qa < qb
             ELSE IF rb = 0 THEN FALSE
             ELSE IF ra = 0 THEN TRUE
             ELSE FracLess(<<b[2], rb>>, <<a[2], ra>>)

(***************************************************************************)
(* calculateMultiplier (src/unnamed/part_000:117-125).                     *)
(***************************************************************************)
houseEdge == <<99, 100>>      \* 0.99

\* chance *= (totalTiles - bombCount - i) / (totalTiles - i) with the bomb
\* count left out of the numerator.
ChanceFactorNoBombs(bombCount, i) == Frac(TotalTiles - i, TotalTiles - i)
\* (totalTiles - bombCount - i) / (totalTiles - i)
ChanceFactor(bombCount, i) == Frac(TotalTiles - bombCount - i, TotalTiles - i)

\* for (let i = 0; i < safeRevealed; i++) chance *= ...
\* (the test of next[1] makes TLC compute each product before the next
\* iteration; a product of 0 stays 0, as in the code).
RECURSIVE chanceLoop(_, _, _, _)
chanceLoop(chance, i, safeRevealed, bombCount) ==
    IF i < safeRevealed
    THEN LET next == FracMul(chance, ChanceFactor(bombCount, i))
         IN  IF next[1] = 0 THEN <<0, 1>>
             ELSE chanceLoop(next, i + 1, safeRevealed, bombCount)
    ELSE chance

\* return 1 / chance (the house edge left out).
calculateMultiplierNoEdge(safeRevealed, bombCount) ==
    FracDiv(<<1, 1>>, chanceLoop(<<1, 1>>, 0, safeRevealed, bombCount))
\* return chance / houseEdge (the quotient the wrong way round).
calculateMultiplierInverted(safeRevealed, bombCount) ==
    FracDiv(chanceLoop(<<1, 1>>, 0, safeRevealed, bombCount), houseEdge)
\* return houseEdge / chance
calculateMultiplier(safeRevealed, bombCount) ==
    FracDiv(houseEdge, chanceLoop(<<1, 1>>, 0, safeRevealed, bombCount))

(***************************************************************************)
(* SoloMinesGame: the reducer (src/unnamed/part_000:19-115).               *)
(* Amounts are in units of 0.01 SOL.                                       *)
(***************************************************************************)
TileIds == 0..(TotalTiles - 1)
newTile(i, bomb) == [id |-> i, isRevealed |-> FALSE, isBomb |-> bomb, isSelected |-> FALSE]

initialState ==
    [gameState |-> "betting",
     betAmount |-> 10,
     bombCount |-> 5,
     tiles |-> [i \in TileIds |-> newTile(i, FALSE)],
     currentMultiplier |-> <<1, 1>>,
     safeRevealed |-> 0]

\* The board left as it is.
revealNone(tiles) == tiles
\* tiles.map(t => ({ ...t, isRevealed: true }))
revealAll(tiles) == [i \in DOMAIN tiles |-> [tiles[i] EXCEPT !.isRevealed = TRUE]]
\* The clicked tile shown together with the tile after it.
revealOneAndNext(tiles, tileId) ==
    [i \in DOMAIN tiles |->
        IF tiles[i].id \in {tileId, tileId + 1}
        THEN [tiles[i] EXCEPT !.isRevealed = TRUE] ELSE tiles[i]]
\* tiles.map(t => t.id === tileId ? { ...t, isRevealed: true } : t)
revealOne(tiles, tileId) ==
    [i \in DOMAIN tiles |->
        IF tiles[i].id = tileId THEN [tiles[i] EXCEPT !.isRevealed = TRUE] ELSE tiles[i]]

\* The test left out: every click counts.
alreadyRevealedNever(tile) == FALSE
\* if (tile.isRevealed) return state
alreadyRevealed(tile) == tile.isRevealed

\* case 'REVEAL_TILE' with the multiplier left as it was.
reduceRevealTileStaleMultiplier(state, tileId) ==
    LET tile == state.tiles[tileId]
        newSafeRevealed == state.safeRevealed + 1
        newTiles == revealOne(state.tiles, tileId)
    IN  IF alreadyRevealed(tile) THEN state
        ELSE IF tile.isBomb
        THEN [state EXCEPT !.gameState = "finished", !.tiles = revealAll(state.tiles)]
        ELSE IF newSafeRevealed = TotalTiles - state.bombCount
        THEN [state EXCEPT !.tiles = revealAll(newTiles),
                           !.safeRevealed = newSafeRevealed,
                           !.gameState = "finished"]
        ELSE [state EXCEPT !.tiles = newTiles, !.safeRevealed = newSafeRevealed]
\* case 'REVEAL_TILE'
reduceRevealTile(state, tileId) ==
    LET tile == state.tiles[tileId]
        newSafeRevealed == state.safeRevealed + 1
        newMultiplier == calculateMultiplier(newSafeRevealed, state.bombCount)
        newTiles == revealOne(state.tiles, tileId)
        allSafeTilesFound == newSafeRevealed = TotalTiles - state.bombCount
    IN  IF alreadyRevealed(tile) THEN state
        ELSE IF tile.isBomb
        THEN [state EXCEPT !.gameState = "finished", !.tiles = revealAll(state.tiles)]
        ELSE IF allSafeTilesFound
        THEN [state EXCEPT !.tiles = revealAll(newTiles),
                           !.safeRevealed = newSafeRevealed,
                           !.currentMultiplier = newMultiplier,
                           !.gameState = "finished"]
        ELSE [state EXCEPT !.tiles = newTiles,
                           !.safeRevealed = newSafeRevealed,
                           !.currentMultiplier = newMultiplier]

gameReducer(state, action) ==
    CASE action.type = "SET_GAME_STATE" -> [state EXCEPT !.gameState = action.payload]
      [] action.type = "SET_BET_AMOUNT" -> [state EXCEPT !.betAmount = action.payload]
      [] action.type = "SET_BOMB_COUNT" -> [state EXCEPT !.bombCount = action.payload]
      [] action.type = "RESET_GAME" ->
            [initialState EXCEPT !.betAmount = state.betAmount,
                                 !.bombCount = state.bombCount]
      [] action.type = "INITIALIZE_GAME" ->
            [state EXCEPT !.bombCount = action.payload.bombCount,
                          !.tiles = action.payload.tiles,
                          !.gameState = "playing",
                          !.safeRevealed = 0,
                          !.currentMultiplier = <<1, 1>>]
      [] action.type = "REVEAL_TILE" -> reduceRevealTile(state, action.payload.tileId)
      [] action.type = "CASH_OUT" -> [state EXCEPT !.gameState = "finished"]
      [] OTHER -> state

(***************************************************************************)
(* StatsContext (not among the sources): addGame records a finished game   *)
(* and totalGames counts the records ("next game number as nonce").        *)
(***************************************************************************)
addGame(record) ==
    /\ games' = Append(games, record)
    /\ totalGames' = totalGames + 1
    /\ UNCHANGED userProfile

\* userProfile?.clientSeed || fallback
clientSeedOr(fallback) ==
    IF userProfile.clientSeed # <<>> THEN userProfile.clientSeed ELSE fallback

(***************************************************************************)
(* SoloMinesGame: the component (src/unnamed/part_000:128-242).            *)
(* A handler runs on the state of the latest render; the finish effect,    *)
(* due after a render that changed one of its dependencies, runs before    *)
(* the next handler.                                                       *)
(***************************************************************************)
\* a - b for fractions.
FracSub(a, b) == Frac(a[1] * b[2] - b[1] * a[2], a[2] * b[2])

\* The dependencies of the finish effect that live in the reducer state.
soloEffectDeps(state) ==
    <<state.gameState, state.betAmount, state.currentMultiplier, state.tiles>>

\* dispatch(action), the handler named op (argument arg) calling it.
dispatch(action, op, arg) ==
    /\ solo' = gameReducer(solo, action)
    /\ soloEffect' = (soloEffect \/ soloEffectDeps(solo') # soloEffectDeps(solo))
    /\ soloOp' = [op |-> op, arg |-> arg, changed |-> solo' # solo]

\* A handler that returns before any dispatch.
soloReturn(op, arg) ==
    /\ soloOp' = [op |-> op, arg |-> arg, changed |-> FALSE]
    /\ UNCHANGED <<solo, soloServerSeed, prevGameState, soloEffect, statsVars>>

\* The ref left at 'playing'.
refAfterEffectKept(gameState) == "playing"
\* prevGameState.current = gameState
refAfterEffect(gameState) == gameState

\* useEffect(() => { ... }, [gameState, betAmount, currentMultiplier, tiles,
\*                          addGame, userProfile, totalGames, serverSeed])
finishEffect ==
    /\ soloEffect
    /\ LET isLoss == \E i \in TileIds : solo.tiles[i].isBomb /\ solo.tiles[i].isRevealed
           clientSeed == clientSeedOr(NotAvailable)
           nonce == totalGames + 1
           winAmount == FracMul(<<solo.betAmount, 1>>, solo.currentMultiplier)
           netProfit == FracSub(winAmount, <<solo.betAmount, 1>>)
       IN  IF prevGameState = "playing" /\ solo.gameState = "finished"
           THEN /\ IF isLoss
                   THEN addGame([netProfit |-> <<0 - solo.betAmount, 1>>,
                                 wageredAmount |-> solo.betAmount,
                                 multiplier |-> <<0, 1>>,
                                 gameMode |-> "solo",
                                 serverSeed |-> soloServerSeed,
                                 clientSeed |-> clientSeed,
                                 nonce |-> nonce])
                   ELSE addGame([netProfit |-> netProfit,
                                 wageredAmount |-> solo.betAmount,
                                 multiplier |-> solo.currentMultiplier,
                                 gameMode |-> "solo",
                                 serverSeed |-> soloServerSeed,
                                 clientSeed |-> clientSeed,
                                 nonce |-> nonce])
                \* totalGames is a dependency: the effect is due again.
                /\ soloEffect' = TRUE
           ELSE /\ soloEffect' = FALSE
                /\ UNCHANGED statsVars
    /\ prevGameState' = refAfterEffect(solo.gameState)
    /\ UNCHANGED <<solo, soloServerSeed, soloOp>>

\* const bombPositions = new Set(); bombLocations.forEach(pos => bombPositions.add(pos))
positionSet(bombLocations) == {bombLocations[k] : k \in 1..Len(bombLocations)}
\* Array.from({ length: 25 }, (_, i) => ({ id: i, ..., isBomb: bombPositions.has(i) }))
boardOf(bombPositions) == [i \in TileIds |-> newTile(i, i \in bombPositions)]

\* if (betAmount < 0): a bet of 0 is let through.
invalidBetStrict(betAmount) == betAmount < 0
\* if (betAmount <= 0) { toast(...); return; }
invalidBet(betAmount) == betAmount <= 0

\* The Start button is rendered while gameState is 'betting'.
\* generateBombLocations(newServerSeed, clientSeed, nonce, bombCount) with
\* clientSeed = userProfile?.clientSeed || 'not_available', nonce = totalGames + 1.
soloRoundCall(newServerSeed) ==
    [kind |-> "call", copy |-> "solo", serverSeed |-> newServerSeed,
     clientSeed |-> clientSeedOr(NotAvailable), nonce |-> totalGames + 1,
     bombCount |-> solo.bombCount]

initializeGame(newServerSeed) ==
    /\ ~soloEffect
    /\ solo.gameState = "betting"
    /\ totalGames < MaxGames
    /\ IF invalidBet(solo.betAmount)
       THEN soloReturn("initializeGame", 0)
       ELSE /\ soloServerSeed' = newServerSeed
            /\ solo' = gameReducer(solo,
                  [type |-> "INITIALIZE_GAME",
                   payload |->
                     [bombCount |-> solo.bombCount,
                      tiles |-> boardOf(positionSet(
                          Solo_generateBombLocations(
                              soloRoundCall(newServerSeed).serverSeed,
                              soloRoundCall(newServerSeed).clientSeed,
                              soloRoundCall(newServerSeed).nonce,
                              soloRoundCall(newServerSeed).bombCount)))]])
            /\ soloEffect' = TRUE
            /\ soloOp' = [op |-> "initializeGame", arg |-> 0, changed |-> TRUE]
            /\ UNCHANGED <<prevGameState, statsVars>>

\* The test left out: a reveal is dispatched in every state.
revealRefusedNever(state) == FALSE
\* if (gameState !== 'playing') return
revealRefused(state) == state.gameState # "playing"

revealTile(tileId) ==
    /\ ~soloEffect
    /\ IF revealRefused(solo)
       THEN soloReturn("revealTile", tileId)
       ELSE /\ dispatch([type |-> "REVEAL_TILE", payload |-> [tileId |-> tileId]],
                        "revealTile", tileId)
            /\ UNCHANGED <<soloServerSeed, prevGameState, statsVars>>

\* if (gameState !== 'playing'): a cash-out before any safe reveal passes.
cashOutRefusedLax(state) == state.gameState # "playing"
\* if (gameState !== 'playing' || safeRevealed === 0) return
cashOutRefused(state) == state.gameState # "playing" \/ state.safeRevealed = 0

cashOut ==
    /\ ~soloEffect
    /\ IF cashOutRefused(solo)
       THEN soloReturn("cashOut", 0)
       ELSE /\ dispatch([type |-> "CASH_OUT"], "cashOut", 0)
            /\ UNCHANGED <<soloServerSeed, prevGameState, statsVars>>

\* The profile's clientSeed is set elsewhere in the application (the
\* context's code is not among the sources); userProfile is a dependency
\* of the finish effect.
profileUpdate(clientSeed) ==
    /\ ~soloEffect
    /\ userProfile.clientSeed # clientSeed
    /\ userProfile' = [clientSeed |-> clientSeed]
    /\ soloEffect' = TRUE
    /\ soloOp' = [op |-> "profileUpdate", arg |-> 0, changed |-> FALSE]
    /\ UNCHANGED <<solo, soloServerSeed, prevGameState, totalGames, games>>

\* The Play Again button is rendered while gameState is 'finished'.
resetGame ==
    /\ ~soloEffect
    /\ solo.gameState = "finished"
    /\ dispatch([type |-> "RESET_GAME"], "resetGame", 0)
    /\ UNCHANGED <<soloServerSeed, prevGameState, statsVars>>

\* The bet input and the bomb slider are rendered while gameState is 'betting'.
handleBetAmountChange(value) ==
    /\ ~soloEffect
    /\ solo.gameState = "betting"
    /\ dispatch([type |-> "SET_BET_AMOUNT", payload |-> value],
                "handleBetAmountChange", value)
    /\ UNCHANGED <<soloServerSeed, prevGameState, statsVars>>

handleBombCountChange(value) ==
    /\ ~soloEffect
    /\ solo.gameState = "betting"
    /\ dispatch([type |-> "SET_BOMB_COUNT", payload |-> value],
                "handleBombCountChange", value)
    /\ UNCHANGED <<soloServerSeed, prevGameState, statsVars>>

(***************************************************************************)
(* MultiplayerMinesGame: values and pure functions                         *)
(* (src/src/components/MultiplayerMinesGame.tsx:54-88, 154-246).           *)
(* Amounts are in units of 0.01 SOL.                                       *)
(***************************************************************************)
\* JSON.parse(JSON.stringify(x)) of a number: NaN comes back as null.
jsonNumber(x) == IF isNaN(x) THEN Null ELSE x
\* ToNumber: null is 0.
toNumber(x) == IF x = Null THEN 0 ELSE x
\* x || fallback, x a number: 0, NaN and null are falsy.
orElse(x, fallback) == IF x = 0 \/ isNaN(x) \/ x = Null THEN fallback ELSE x
\* a < b, false when either side is NaN.
jsLess(a, b) == ~isNaN(a) /\ ~isNaN(b) /\ toNumber(a) < toNumber(b)
\* a - b
jsMinus(a, b) == IF isNaN(a) \/ isNaN(b) THEN NaN ELSE toNumber(a) - toNumber(b)
\* a === b for numbers: NaN equals nothing.
jsStrictEq(a, b) == ~isNaN(a) /\ ~isNaN(b) /\ a = b

\* seedrandom(seed): the k-th draw of the generator seeded with seed, in
\* hundredths (a deterministic stand-in: every residue occurs within 100
\* draws).
rngDraw(seed, k) == (seed * 37 + k * 43 + 11) % 100
\* gameSeed + 'tie'
tieSeed(seed) == seed * 3 + 7

NoSettings == [given |-> FALSE]
Settings(bombs, amount) == [given |-> TRUE, bombs |-> bombs, amount |-> amount]
Unmounted == [mounted |-> FALSE]
NoCoinflip == [show |-> FALSE, winner |-> "none"]
NoTimer == [set |-> FALSE]
Other(side) == IF side = "player" THEN "opponent" ELSE "player"

duelTile(id, bomb) ==
    [id |-> id, isRevealed |-> FALSE, isBomb |-> bomb, revealedBy |-> "none"]

\* createInitialState(settings), gameSeed = Date.now().toString()
createInitialState(settings, gameSeed) ==
    [tiles |-> [id \in TileIds |-> duelTile(id, FALSE)],
     activeTurn |-> IF rngDraw(gameSeed, 0) < 50 THEN "player" ELSE "opponent",
     playerScore |-> 0,
     opponentScore |-> 0,
     playerHasHitBomb |-> FALSE,
     opponentHasHitBomb |-> FALSE,
     gameOver |-> FALSE,
     winner |-> "none",
     minesPlaced |-> FALSE,
     betAmount |-> IF settings.given THEN orElse(settings.amount, 1) ELSE 1,
     bombCount |-> IF settings.given THEN orElse(settings.bombs, 3) ELSE 3,
     gameSeed |-> gameSeed,
     serverSeed |-> <<>>,
     clientSeed |-> <<>>,
     nonce |-> 0]

\* The test position !== firstClickedId left out.
RECURSIVE placeLoopAnywhere(_, _, _, _, _)
placeLoopAnywhere(minePositions, k, firstClickedId, bombCount, seed) ==
    IF jsLess(Cardinality(minePositions), bombCount)
    THEN LET position == (rngDraw(seed, k) * TotalTiles) \div 100
         IN  placeLoopAnywhere(minePositions \cup {position},
                               k + 1, firstClickedId, bombCount, seed)
    ELSE minePositions

\* while (minePositions.size < bombCount) { position = floor(rng() * 25); ... }
RECURSIVE placeLoop(_, _, _, _, _)
placeLoop(minePositions, k, firstClickedId, bombCount, seed) ==
    IF jsLess(Cardinality(minePositions), bombCount)
    THEN LET position == (rngDraw(seed, k) * TotalTiles) \div 100
         IN  placeLoop(IF position # firstClickedId
                       THEN minePositions \cup {position} ELSE minePositions,
                       k + 1, firstClickedId, bombCount, seed)
    ELSE minePositions

\* The loop of placeMines ends: at most totalTiles - 1 positions differ from
\* firstClickedId.
placeMinesReturns(bombCount) == ~jsLess(TotalTiles - 1, bombCount)
placeMines(firstClickedId, bombCount, seed) ==
    placeLoop({}, 0, firstClickedId, bombCount, seed)

\* JSON.parse(JSON.stringify(state))
jsonCopy(state) ==
    [state EXCEPT !.betAmount = jsonNumber(@), !.bombCount = jsonNumber(@),
                  !.nonce = jsonNumber(@)]

\* if (!newState.minesPlaced) { ...placeMines...; newState.minesPlaced = true }
withMines(newState, minePositions) ==
    [newState EXCEPT
        !.tiles = [i \in TileIds |->
                      IF i \in minePositions THEN [@[i] EXCEPT !.isBomb = TRUE] ELSE @[i]],
        !.minesPlaced = TRUE]

\* The bust flags assigned from this move alone.
withRevealFlagsReset(newState, tileId, moveMaker) ==
    LET isBomb == newState.tiles[tileId].isBomb
    IN  [newState EXCEPT
            !.tiles[tileId].isRevealed = TRUE,
            !.tiles[tileId].revealedBy = moveMaker,
            !.playerHasHitBomb = isBomb /\ moveMaker = "player",
            !.opponentHasHitBomb = isBomb /\ moveMaker = "opponent",
            !.playerScore = IF ~isBomb /\ moveMaker = "player" THEN @ + 1 ELSE @,
            !.opponentScore = IF ~isBomb /\ moveMaker = "opponent" THEN @ + 1 ELSE @]

\* tile.isRevealed = true; tile.revealedBy = moveMaker; flags and scores.
withReveal(newState, tileId, moveMaker) ==
    LET isBomb == newState.tiles[tileId].isBomb
    IN  [newState EXCEPT
            !.tiles[tileId].isRevealed = TRUE,
            !.tiles[tileId].revealedBy = moveMaker,
            !.playerHasHitBomb = @ \/ (isBomb /\ moveMaker = "player"),
            !.opponentHasHitBomb = @ \/ (isBomb /\ moveMaker = "opponent"),
            !.playerScore = IF ~isBomb /\ moveMaker = "player" THEN @ + 1 ELSE @,
            !.opponentScore = IF ~isBomb /\ moveMaker = "opponent" THEN @ + 1 ELSE @]

allSafeTilesRevealed(newState) ==
    jsStrictEq(Cardinality({i \in TileIds :
                   ~newState.tiles[i].isBomb /\ newState.tiles[i].isRevealed}),
               jsMinus(TotalTiles, newState.bombCount))

\* Equal scores given to the player.
byScoreTieToPlayer(newState) ==
    IF newState.opponentScore > newState.playerScore THEN "opponent" ELSE "player"

byScore(newState) ==
    IF newState.playerScore > newState.opponentScore THEN "player"
    ELSE IF newState.opponentScore > newState.playerScore THEN "opponent"
    ELSE "none"

\* seedrandom(newState.gameSeed + 'tie')() < 0.5 ? 'player' : 'opponent'
coinFlipWinner(newState) ==
    IF rngDraw(tieSeed(newState.gameSeed), 0) < 50 THEN "player" ELSE "opponent"

\* A bust ends the round whatever the scores.
gameOverCheckBustEnds(newState) ==
    IF allSafeTilesRevealed(newState)
    THEN [gameOver |-> TRUE, winner |-> byScore(newState),
          coin |-> byScore(newState) = "none"]
    ELSE IF newState.playerHasHitBomb /\ ~newState.opponentHasHitBomb
    THEN [gameOver |-> TRUE, winner |-> "opponent", coin |-> FALSE]
    ELSE IF newState.opponentHasHitBomb /\ ~newState.playerHasHitBomb
    THEN [gameOver |-> TRUE, winner |-> "player", coin |-> FALSE]
    ELSE IF newState.playerHasHitBomb /\ newState.opponentHasHitBomb
    THEN [gameOver |-> TRUE, winner |-> byScore(newState),
          coin |-> byScore(newState) = "none"]
    ELSE [gameOver |-> FALSE, winner |-> "none", coin |-> FALSE]

\* The test of allSafeTilesRevealed left out.
gameOverCheckNoClear(newState) ==
    IF newState.playerHasHitBomb /\ newState.opponentScore > newState.playerScore
    THEN [gameOver |-> TRUE, winner |-> "opponent", coin |-> FALSE]
    ELSE IF newState.opponentHasHitBomb /\ newState.playerScore > newState.opponentScore
    THEN [gameOver |-> TRUE, winner |-> "player", coin |-> FALSE]
    ELSE IF newState.playerHasHitBomb /\ newState.opponentHasHitBomb
    THEN [gameOver |-> TRUE, winner |-> byScore(newState),
          coin |-> byScore(newState) = "none"]
    ELSE [gameOver |-> FALSE, winner |-> "none", coin |-> FALSE]

\* "Check for game over conditions": gameOver, winner (none for null) and
\* the coinflip shown, if any.
gameOverCheck(newState) ==
    IF allSafeTilesRevealed(newState)
    THEN [gameOver |-> TRUE, winner |-> byScore(newState),
          coin |-> byScore(newState) = "none"]
    ELSE IF newState.playerHasHitBomb /\ newState.opponentScore > newState.playerScore
    THEN [gameOver |-> TRUE, winner |-> "opponent", coin |-> FALSE]
    ELSE IF newState.opponentHasHitBomb /\ newState.playerScore > newState.opponentScore
    THEN [gameOver |-> TRUE, winner |-> "player", coin |-> FALSE]
    ELSE IF newState.playerHasHitBomb /\ newState.opponentHasHitBomb
    THEN [gameOver |-> TRUE, winner |-> byScore(newState),
          coin |-> byScore(newState) = "none"]
    ELSE [gameOver |-> FALSE, winner |-> "none", coin |-> FALSE]

duelRevealAll(tiles) == [i \in TileIds |-> [tiles[i] EXCEPT !.isRevealed = TRUE]]

\* stats.addGame({...}) of a decided duel; serverSeed, clientSeed and nonce
\* are read from the closure's state.
duelRecord(betAmount, winner, state) ==
    [wageredAmount |-> betAmount,
     netProfit |-> IF winner = "player" THEN <<toNumber(betAmount), 1>>
                   ELSE <<0 - toNumber(betAmount), 1>>,
     multiplier |-> IF winner = "player" THEN <<2, 1>> ELSE <<0, 1>>,
     gameMode |-> "1v1",
     serverSeed |-> state.serverSeed,
     clientSeed |-> state.clientSeed,
     nonce |-> state.nonce]

\* A tie given to the player at once, the coinflip still shown.
withOutcomeTieDecided(newState, over, moveMaker) ==
    IF over.gameOver
    THEN IF over.winner # "none"
         THEN [newState EXCEPT !.gameOver = TRUE, !.winner = over.winner,
                               !.tiles = duelRevealAll(@)]
         ELSE [newState EXCEPT !.gameOver = TRUE, !.winner = "player"]
    ELSE [newState EXCEPT !.activeTurn = Other(moveMaker)]

\* The turn left with the mover.
withOutcomeKeepTurn(newState, over, moveMaker) ==
    IF over.gameOver
    THEN IF over.winner # "none"
         THEN [newState EXCEPT !.gameOver = TRUE, !.winner = over.winner,
                               !.tiles = duelRevealAll(@)]
         ELSE [newState EXCEPT !.gameOver = TRUE]
    ELSE [newState EXCEPT !.activeTurn = moveMaker]

\* if (gameOver) {...} else { newState.activeTurn = ... }
withOutcome(newState, over, moveMaker) ==
    IF over.gameOver
    THEN IF over.winner # "none"
         THEN [newState EXCEPT !.gameOver = TRUE, !.winner = over.winner,
                               !.tiles = duelRevealAll(@)]
         ELSE [newState EXCEPT !.gameOver = TRUE]
    ELSE [newState EXCEPT !.activeTurn = Other(moveMaker)]

\* The turn test left out of both guards.
moveRejectedAnyTurn(newState, moveMaker) ==
    \/ newState.gameOver
    \/ moveMaker = "player" /\ newState.playerHasHitBomb
    \/ moveMaker = "opponent" /\ newState.opponentHasHitBomb

moveRejected(newState, moveMaker) ==
    \/ newState.gameOver
    \/ moveMaker = "player"
         /\ (newState.playerHasHitBomb \/ newState.activeTurn # "player")
    \/ moveMaker = "opponent"
         /\ (newState.opponentHasHitBomb \/ newState.activeTurn # "opponent")

\* The mines in place for the move (placed now, unless already placed).
minedState(newState, tileId) ==
    IF newState.minesPlaced THEN newState
    ELSE withMines(newState, placeMines(tileId, newState.bombCount, newState.gameSeed))

\* addGame called whenever the round is over, a winner or not.
moveOutcomeRecordsTie(revealed, moveMaker, state) ==
    [kind |-> "set",
     newState |-> withOutcome(revealed, gameOverCheck(revealed), moveMaker),
     coin |-> gameOverCheck(revealed).coin,
     coinWinner |-> coinFlipWinner(revealed),
     record |-> gameOverCheck(revealed).gameOver,
     game |-> duelRecord(revealed.betAmount, gameOverCheck(revealed).winner, state)]

\* From the revealed state to what processMove sets.
moveOutcome(revealed, moveMaker, state) ==
    [kind |-> "set",
     newState |-> withOutcome(revealed, gameOverCheck(revealed), moveMaker),
     coin |-> gameOverCheck(revealed).coin,
     coinWinner |-> coinFlipWinner(revealed),
     record |-> gameOverCheck(revealed).gameOver /\ gameOverCheck(revealed).winner # "none",
     game |-> duelRecord(revealed.betAmount, gameOverCheck(revealed).winner, state)]

\* processMove(tileId, moveMaker), state the closure's state: what it does.
processMove(state, tileId, moveMaker) ==
    IF moveRejected(jsonCopy(state), moveMaker) THEN [kind |-> "return"]
    ELSE IF ~state.minesPlaced /\ ~placeMinesReturns(jsonCopy(state).bombCount)
    THEN [kind |-> "hang"]
    ELSE moveOutcome(withReveal(minedState(jsonCopy(state), tileId), tileId, moveMaker),
                     moveMaker, state)

(***************************************************************************)
(* MultiplayerMinesGame: the component (MultiplayerMinesGame.tsx:91-273).  *)
(* The effects of a commit run in order (settings, then turn) on the state *)
(* of the render they belong to; handlers and the bot's timer run once no  *)
(* effect is due, on the state their closure holds.                        *)
(***************************************************************************)
\* 'default-client-seed'
DefaultClientSeed ==
    <<100, 101, 102, 97, 117, 108, 116, 45, 99, 108, 105, 101, 110, 116, 45,
      115, 101, 101, 100>>

\* [state.activeTurn, state.playerHasHitBomb, state.opponentHasHitBomb, state.gameOver]
turnDeps(state) ==
    <<state.activeTurn, state.playerHasHitBomb, state.opponentHasHitBomb, state.gameOver>>

\* setState(newDuel) and the render that follows: the turn effect is due
\* when one of its dependencies differs from the previous render's.
rendered(newDuel) ==
    /\ duel' = newDuel
    /\ duelRender' = newDuel
    /\ duelEffects' = IF turnDeps(newDuel) # turnDeps(duelRender) THEN {"turn"} ELSE {}

\* setState({ ...initialState, betAmount: amount, bombCount: bombs, tiles, ... })
settingsState(initial, bombPositions, serverSeed, clientSeed, nonce) ==
    [initial EXCEPT
        !.betAmount = duelSettings.amount,
        !.bombCount = duelSettings.bombs,
        !.tiles = [i \in TileIds |-> duelTile(i, i \in bombPositions)],
        !.minesPlaced = TRUE,
        !.serverSeed = serverSeed,
        !.clientSeed = clientSeed,
        !.nonce = nonce]

\* if (!settings) return; if (state.minesPlaced || ... || state.gameOver) return;
settingsSkipped ==
    \/ ~duelSettings.given
    \/ duelRender.minesPlaced
    \/ \E i \in TileIds : duelRender.tiles[i].isRevealed
    \/ duelRender.gameOver

\* generateBombLocations(serverSeed, clientSeed, nonce, bombs) with
\* clientSeed = stats.userProfile?.clientSeed || 'default-client-seed',
\* nonce = (stats.totalGames || 0) + 1.
duelRoundCall(newServerSeed) ==
    [kind |-> "call", copy |-> "duel", serverSeed |-> newServerSeed,
     clientSeed |-> clientSeedOr(DefaultClientSeed), nonce |-> totalGames + 1,
     bombCount |-> duelSettings.bombs]

\* useEffect(() => {...}, [settings]): run once, after the first render.
settingsEffect(gameSeed, newServerSeed) ==
    /\ "settings" \in duelEffects
    /\ gameSeed >= duelRender.gameSeed
    /\ IF settingsSkipped
       THEN UNCHANGED duel
       ELSE duel' = settingsState(
                createInitialState(duelSettings, gameSeed),
                positionSet(Duel_generateBombLocations(
                    duelRoundCall(newServerSeed).serverSeed,
                    duelRoundCall(newServerSeed).clientSeed,
                    duelRoundCall(newServerSeed).nonce,
                    duelRoundCall(newServerSeed).bombCount)),
                newServerSeed, duelRoundCall(newServerSeed).clientSeed,
                duelRoundCall(newServerSeed).nonce)
    /\ duelEffects' = duelEffects \ {"settings"}
    /\ UNCHANGED <<duelSettings, duelRender, coinflip, botTimer, duelHung, duelOp,
                   statsVars>>

\* The turn effect's functional setState, applied to the current state.
turnSkip(closure, current) ==
    IF closure.gameOver THEN current
    ELSE IF closure.activeTurn = "player" /\ closure.playerHasHitBomb
    THEN [current EXCEPT !.activeTurn = "opponent"]
    ELSE IF closure.activeTurn = "opponent" /\ closure.opponentHasHitBomb
    THEN [current EXCEPT !.activeTurn = "player"]
    ELSE current

\* The turn effect never reaching setTimeout.
turnSetsTimerNever(closure) == FALSE
\* The turn effect reaches setTimeout(() => makeBotMove(), 1000).
turnSetsTimer(closure) ==
    /\ ~closure.gameOver
    /\ ~(closure.activeTurn = "player" /\ closure.playerHasHitBomb)
    /\ closure.activeTurn = "opponent" /\ ~closure.opponentHasHitBomb

\* The timer's callback bound to the state of the mount.
timerClosureOfMount(render) == createInitialState(duelSettings, render.gameSeed)
\* setTimeout(() => makeBotMove(), 1000): the callback holds the makeBotMove
\* of the render the effect belongs to, hence that render's state.
timerClosure(render) == render

\* useEffect(() => {...}, [activeTurn, playerHasHitBomb, opponentHasHitBomb,
\* gameOver]): the previous run's cleanup (clearTimeout), then the body on
\* the state of its render, then the render of what was set.
turnEffect ==
    /\ duelEffects = {"turn"}
    /\ botTimer' = IF turnSetsTimer(duelRender)
                   THEN [set |-> TRUE, snap |-> timerClosure(duelRender)] ELSE NoTimer
    /\ duel' = turnSkip(duelRender, duel)
    /\ duelRender' = turnSkip(duelRender, duel)
    /\ duelEffects' = IF turnDeps(turnSkip(duelRender, duel)) # turnDeps(duelRender)
                      THEN {"turn"} ELSE {}
    /\ UNCHANGED <<duelSettings, coinflip, duelHung, duelOp, statsVars>>

\* What a call of processMove leaves behind, r its outcome.
applyMove(r) ==
    CASE r.kind = "return" ->
            UNCHANGED <<duel, duelRender, coinflip, duelEffects, duelHung, statsVars>>
      [] r.kind = "hang" ->
            /\ duelHung' = TRUE
            /\ UNCHANGED <<duel, duelRender, coinflip, duelEffects, statsVars>>
      [] r.kind = "set" ->
            /\ rendered(r.newState)
            /\ coinflip' = IF r.coin THEN [show |-> TRUE, winner |-> r.coinWinner]
                           ELSE coinflip
            /\ IF r.record THEN addGame(r.game) ELSE UNCHANGED statsVars
            /\ UNCHANGED duelHung

unrevealedTiles(state) == {i \in TileIds : ~state.tiles[i].isRevealed}
movesMade(state) == Cardinality({i \in TileIds : state.tiles[i].revealedBy # "none"})
\* The MaxChoices lowest tiles of a set.
firstChoices(S) == {i \in S : Cardinality({j \in S : j < i}) < MaxChoices}
lowestOf(S) == {i \in S : \A j \in S : i <= j}
\* The tiles of S a move is tried on: the first ones, the lowest bomb and the
\* lowest safe tile.
moveChoices(state, S) ==
    firstChoices(S) \cup lowestOf({i \in S : state.tiles[i].isBomb})
                    \cup lowestOf({i \in S : ~state.tiles[i].isBomb})
\* The tiles a click lands on: unrevealed ones and the lowest revealed ones.
clickChoices(state) ==
    moveChoices(state, unrevealedTiles(state))
        \cup firstChoices(TileIds \ unrevealedTiles(state))

NoDuelOp == [op |-> "none", tile |-> 0 - 1, side |-> "none", kind |-> "none"]
\* A call of processMove(tileId, moveMaker) and how it ended: "return"
\* (rejected), "hang", or "set" (accepted, setState reached).
moveOp(tileId, moveMaker, r) ==
    [op |-> "processMove", tile |-> tileId, side |-> moveMaker, kind |-> r.kind]

\* The test of tile.isRevealed left out.
handleTileClickUnchecked(tileId) ==
    /\ duel # Unmounted /\ duelEffects = {} /\ ~duelHung
    /\ movesMade(duelRender) < MaxDuelMoves
    /\ tileId \in clickChoices(duelRender)
    /\ duelOp' = moveOp(tileId, "player", processMove(duelRender, tileId, "player"))
    /\ applyMove(processMove(duelRender, tileId, "player"))
    /\ UNCHANGED <<duelSettings, botTimer>>

\* onClick={() => handleTileClick(tile.id)}
handleTileClick(tileId) ==
    /\ duel # Unmounted /\ duelEffects = {} /\ ~duelHung
    /\ movesMade(duelRender) < MaxDuelMoves
    /\ tileId \in clickChoices(duelRender)
    /\ IF duelRender.tiles[tileId].isRevealed
       THEN /\ duelOp' = [op |-> "handleTileClick", tile |-> tileId,
                         side |-> "player", kind |-> "return"]
            /\ UNCHANGED <<duel, duelRender, coinflip, duelEffects, duelHung, statsVars>>
       ELSE /\ duelOp' = moveOp(tileId, "player", processMove(duelRender, tileId, "player"))
            /\ applyMove(processMove(duelRender, tileId, "player"))
    /\ UNCHANGED <<duelSettings, botTimer>>

\* The n-th element (from 0) of a set of tile ids taken in tile order.
nthOf(S, n) == CHOOSE i \in S : Cardinality({j \in S : j < i}) = n
\* Math.random(), in hundredths.
RandomDraws == 0..99
\* The safe unrevealed tiles preferred.
botPickSafeFirst(state, random) ==
    IF \E i \in unrevealedTiles(state) : ~state.tiles[i].isBomb
    THEN nthOf({i \in unrevealedTiles(state) : ~state.tiles[i].isBomb},
               (random * Cardinality({i \in unrevealedTiles(state) :
                                         ~state.tiles[i].isBomb})) \div 100)
    ELSE nthOf(unrevealedTiles(state),
               (random * Cardinality(unrevealedTiles(state))) \div 100)
\* unrevealedTiles[Math.floor(Math.random() * unrevealedTiles.length)].id
botPick(state, random) ==
    nthOf(unrevealedTiles(state), (random * Cardinality(unrevealedTiles(state))) \div 100)

\* processMove(randomTile.id, 'opponent') of the timer's closure.
botMovesOn(tileId) ==
    /\ tileId \in moveChoices(duel, unrevealedTiles(botTimer.snap))
    /\ duelOp' = moveOp(tileId, "opponent", processMove(botTimer.snap, tileId, "opponent"))
    /\ applyMove(processMove(botTimer.snap, tileId, "opponent"))

\* The timer fires: makeBotMove() of the render that set it, random the
\* value Math.random() returns.
makeBotMove(random) ==
    /\ botTimer.set /\ duelEffects = {} /\ ~duelHung
    /\ movesMade(botTimer.snap) < MaxDuelMoves
    /\ IF unrevealedTiles(botTimer.snap) = {}
       THEN /\ duelOp' = [op |-> "makeBotMove", tile |-> 0 - 1,
                         side |-> "opponent", kind |-> "return"]
            /\ UNCHANGED <<duel, duelRender, coinflip, duelEffects, duelHung, statsVars>>
       ELSE botMovesOn(botPick(botTimer.snap, random))
    /\ botTimer' = NoTimer
    /\ UNCHANGED duelSettings

\* <Coinflip winner={coinflip.winner} onAnimationComplete={handleCoinflipComplete} />
handleCoinflipComplete(winner) ==
    /\ duel # Unmounted /\ duelEffects = {} /\ ~duelHung
    /\ coinflip.show /\ coinflip.winner # "none"
    /\ winner = coinflip.winner
    /\ rendered([duel EXCEPT !.winner = winner])
    /\ coinflip' = [coinflip EXCEPT !.show = FALSE]
    /\ addGame(duelRecord(duelRender.betAmount, winner, duelRender))
    /\ duelOp' = [op |-> "handleCoinflipComplete", tile |-> 0 - 1,
                  side |-> winner, kind |-> "set"]
    /\ UNCHANGED <<duelSettings, botTimer, duelHung>>

(***************************************************************************)
(* Inputs of the shuffle.                                                  *)
(***************************************************************************)
ZeroDigest == [k \in 1..DigestLen |-> 48]     \* "000...0"
OnesDigest == [k \in 1..DigestLen |-> 102]    \* "fff...f"
DigestSamples == {ZeroDigest, OnesDigest, SHA256(SeedA), SHA256(SeedB)}

ServerSeedInputs == {<<>>, SeedA, SeedB}
ClientSeedInputs == {<<>>, ClientC, NotAvailable}
NonceInputs == (1..MaxNonce) \cup {NaN}
BombCountInputs == (0..(TotalTiles + 1)) \cup {NaN}
Copies == {"solo", "duel"}

NoArgs == [kind |-> "none"]
NoResult == [done |-> FALSE, value |-> <<>>]
Returned(v) == [done |-> TRUE, value |-> v]

CallArgs(copy, ss, cs, n, b) ==
    [kind |-> "call", copy |-> copy, serverSeed |-> ss, clientSeed |-> cs,
     nonce |-> n, bombCount |-> b]
\* The loop of generateBombLocations entered with a given first digest.
LoopArgs(copy, h) == [kind |-> "loop", copy |-> copy, hash |-> h]

Invoke(a) ==
    IF a.kind = "call"
    THEN IF a.copy = "solo"
         THEN Solo_generateBombLocations(a.serverSeed, a.clientSeed, a.nonce, a.bombCount)
         ELSE Duel_generateBombLocations(a.serverSeed, a.clientSeed, a.nonce, a.bombCount)
    ELSE IF a.copy = "solo"
         THEN Solo_shuffleLoop(IdentityTiles, TotalTiles - 1, a.hash)
         ELSE Duel_shuffleLoop(IdentityTiles, TotalTiles - 1, a.hash)

NoPrev == [set |-> FALSE, args |-> <<0, 1>>, out |-> <<0, 1>>]
MultIdle == mArgs = <<0, 1>> /\ mOut = NoResult /\ mPrev = NoPrev

ShuffleIdle == gblArgs = NoArgs /\ gblResult = NoResult /\ gblCalls = <<>>
NoOp == [op |-> "none", arg |-> 0, changed |-> FALSE]
SoloIdle ==
    /\ solo = initialState
    /\ soloServerSeed = <<>>
    /\ prevGameState = "betting"
    /\ soloEffect = FALSE
    /\ soloOp = NoOp
\* MultiplayerMinesGame is not mounted.
DuelIdle ==
    /\ duelSettings = NoSettings
    /\ duel = Unmounted
    /\ duelRender = Unmounted
    /\ coinflip = NoCoinflip
    /\ duelEffects = {}
    /\ botTimer = NoTimer
    /\ duelHung = FALSE
    /\ duelOp = NoDuelOp
StatsIdle ==
    /\ totalGames = 0
    /\ userProfile = [clientSeed |-> <<>>]
    /\ games = <<>>

\* What each specification leaves alone.
shuffleRest == <<multVars, soloVars, statsVars, duelVars>>
multRest == <<shuffleVars, soloVars, statsVars, duelVars>>
soloRest == <<shuffleVars, multVars, duelVars>>
duelRest == <<shuffleVars, multVars, soloVars>>
ShuffleRestIdle == MultIdle /\ SoloIdle /\ StatsIdle /\ DuelIdle
MultRestIdle == ShuffleIdle /\ SoloIdle /\ StatsIdle /\ DuelIdle
SoloRestIdle == ShuffleIdle /\ MultIdle /\ DuelIdle
DuelRestIdle == ShuffleIdle /\ MultIdle /\ SoloIdle

(***************************************************************************)
(* SpecShuffle: one invocation of generateBombLocations (either copy), or  *)
(* of its loop from a given first digest, on inputs drawn at Init.         *)
(***************************************************************************)
ShuffleInputs ==
    {CallArgs(c, ss, cs, n, b) : c \in Copies, ss \in ServerSeedInputs,
         cs \in ClientSeedInputs, n \in NonceInputs, b \in BombCountInputs}
    \cup {LoopArgs(c, h) : c \in Copies, h \in DigestSamples}

InitShuffle ==
    /\ gblArgs \in ShuffleInputs
    /\ gblResult = NoResult
    /\ gblCalls = <<>>
    /\ ShuffleRestIdle

ShuffleReturn ==
    /\ ~gblResult.done
    /\ gblResult' = Returned(Invoke(gblArgs))
    /\ UNCHANGED <<gblArgs, gblCalls, shuffleRest>>

NextShuffle == ShuffleReturn
SpecShuffle == InitShuffle /\ [][NextShuffle]_vars

(***************************************************************************)
(* SpecCalls: a sequence of invocations, each logged with its result.      *)
(***************************************************************************)
CallInputs ==
    {CallArgs(c, ss, cs, n, b) : c \in Copies, ss \in {SeedA, SeedB},
         cs \in {ClientC}, n \in 1..MaxNonce, b \in {5, TotalTiles - 1}}

InitCalls ==
    /\ gblArgs = NoArgs
    /\ gblResult = NoResult
    /\ gblCalls = <<>>
    /\ ShuffleRestIdle

CallEnter(a) ==
    /\ gblArgs = NoArgs
    /\ Len(gblCalls) < MaxCalls
    /\ gblArgs' = a
    /\ gblResult' = NoResult
    /\ UNCHANGED <<gblCalls, shuffleRest>>

CallReturn ==
    /\ gblArgs # NoArgs
    /\ gblCalls' = Append(gblCalls, [args |-> gblArgs, result |-> Invoke(gblArgs)])
    /\ gblArgs' = NoArgs
    /\ gblResult' = NoResult
    /\ UNCHANGED shuffleRest

NextCalls == (\E a \in CallInputs : CallEnter(a)) \/ CallReturn
SpecCalls == InitCalls /\ [][NextCalls]_vars

(***************************************************************************)
(* SpecMult: calculateMultiplier applied to (safeRevealed, bombCount)      *)
(* drawn at Init, then to more safe reveals or more bombs, the previous    *)
(* call kept in mPrev.                                                     *)
(***************************************************************************)
BombCounts == 1..(TotalTiles - 1)
SafeCounts(b) == 0..(TotalTiles - b)

InitMult ==
    /\ mArgs \in {<<s, b>> : s \in 0..TotalTiles, b \in BombCounts}
    /\ mArgs[1] \in SafeCounts(mArgs[2])
    /\ mOut = NoResult
    /\ mPrev = NoPrev
    /\ MultRestIdle

MultCall ==
    /\ ~mOut.done
    /\ mOut' = Returned(calculateMultiplier(mArgs[1], mArgs[2]))
    /\ UNCHANGED <<mArgs, mPrev, multRest>>

MultAgain(s, b) ==
    /\ mOut.done
    /\ mPrev' = [set |-> TRUE, args |-> mArgs, out |-> mOut.value]
    /\ mArgs' = <<s, b>>
    /\ mOut' = Returned(calculateMultiplier(s, b))
    /\ UNCHANGED multRest

\* One more safe tile revealed, the bomb count fixed.
MultMoreSafe ==
    /\ mArgs[1] + 1 \in SafeCounts(mArgs[2])
    /\ MultAgain(mArgs[1] + 1, mArgs[2])

\* A larger bomb count, the number of safe reveals fixed.
MultMoreBombs ==
    \E b \in BombCounts :
        /\ b > mArgs[2]
        /\ mArgs[1] \in SafeCounts(b)
        /\ MultAgain(mArgs[1], b)

NextMult == MultCall \/ MultMoreSafe \/ MultMoreBombs
SpecMult == InitMult /\ [][NextMult]_vars

(***************************************************************************)
(* SpecSolo: a session of SoloMinesGame.                                   *)
(***************************************************************************)
ServerSeedPool == {SeedA, SeedB}       \* crypto.lib.WordArray.random(16)
BetInputs == {0 - 10, 0, 20}           \* typed into the bet input
SliderInputs == {1, TotalTiles - 2, TotalTiles - 1}   \* Slider min 1, max 24
ClickTiles == 0..MaxClickTile
ProfileSeedInputs == {ClientC}         \* the client seed a player sets in the profile

InitSolo ==
    /\ solo = initialState
    /\ soloServerSeed = <<>>
    /\ prevGameState = "betting"
    /\ soloEffect = FALSE
    /\ soloOp = NoOp
    /\ totalGames = 0
    /\ userProfile \in {[clientSeed |-> <<>>], [clientSeed |-> ClientC]}
    /\ games = <<>>
    /\ SoloRestIdle

NextSolo ==
    \/ \E seed \in ServerSeedPool : initializeGame(seed) /\ UNCHANGED soloRest
    \/ \E t \in ClickTiles : revealTile(t) /\ UNCHANGED soloRest
    \/ cashOut /\ UNCHANGED soloRest
    \/ resetGame /\ UNCHANGED soloRest
    \/ \E v \in BetInputs : handleBetAmountChange(v) /\ UNCHANGED soloRest
    \/ \E v \in SliderInputs : handleBombCountChange(v) /\ UNCHANGED soloRest
    \/ finishEffect /\ UNCHANGED soloRest
    \/ \E cs \in ProfileSeedInputs : profileUpdate(cs) /\ UNCHANGED soloRest

SpecSolo == InitSolo /\ [][NextSolo]_vars

(***************************************************************************)
(* SpecDuel: one mounted MultiplayerMinesGame.                             *)
(***************************************************************************)
GameSeeds == 1..MaxGameSeed
\* settings.bombs: the lobby's Select gives 1, 3, 5; a joined lobby entry
\* gives whatever it holds.
DuelBombInputs == {NaN, 0, 1, 3, TotalTiles - 2, TotalTiles - 1, TotalTiles}
DuelAmountInputs == {1, 5}
DuelSettingsInputs ==
    {NoSettings} \cup {Settings(b, a) : b \in DuelBombInputs, a \in DuelAmountInputs}
Sides == {"player", "opponent"}

InitDuel ==
    /\ duelSettings \in DuelSettingsInputs
    /\ \E seed \in GameSeeds : duel = createInitialState(duelSettings, seed)
    /\ duelRender = duel
    /\ coinflip = NoCoinflip
    /\ duelEffects = {"settings", "turn"}
    /\ botTimer = NoTimer
    /\ duelHung = FALSE
    /\ duelOp = NoDuelOp
    /\ totalGames = 0
    /\ userProfile \in {[clientSeed |-> <<>>], [clientSeed |-> ClientC]}
    /\ games = <<>>
    /\ DuelRestIdle

NextDuel ==
    \/ \E seed \in GameSeeds, ss \in ServerSeedPool :
           settingsEffect(seed, ss) /\ UNCHANGED duelRest
    \/ turnEffect /\ UNCHANGED duelRest
    \/ \E t \in TileIds : handleTileClick(t) /\ UNCHANGED duelRest
    \/ \E r \in RandomDraws : makeBotMove(r) /\ UNCHANGED duelRest
    \/ \E w \in Sides : handleCoinflipComplete(w) /\ UNCHANGED duelRest

SpecDuel == InitDuel /\ [][NextDuel]_vars
\* An effect that is due runs after the commit, and the Coinflip shown ends
\* its animation and calls onAnimationComplete.
SpecDuelFair ==
    /\ SpecDuel
    /\ WF_vars(turnEffect /\ UNCHANGED duelRest)
    /\ WF_vars(\E w \in Sides : handleCoinflipComplete(w) /\ UNCHANGED duelRest)

\* The settings effect is due: settingsEffect is enabled.
settingsDue == "settings" \in duelEffects
\* The round waits for the player: no effect is due, the round is not over,
\* the turn is the player's, who has not busted, and a tile is unrevealed.
playerToMove ==
    /\ duelEffects = {} /\ ~duelHung
    /\ ~duelRender.gameOver
    /\ duelRender.activeTurn = "player" /\ ~duelRender.playerHasHitBomb
    /\ unrevealedTiles(duelRender) # {}
    /\ movesMade(duelRender) < MaxDuelMoves
\* The bot's timer is set and may fire: makeBotMove is enabled.
timerReady ==
    /\ botTimer.set /\ duelEffects = {} /\ ~duelHung
    /\ movesMade(botTimer.snap) < MaxDuelMoves
\* Moreover the settings effect runs after the mount, the player does not
\* leave their turn unplayed for ever, and a timer that is set does not stay
\* set for ever: the weak fairness of settingsEffect, of the player's click
\* on an unrevealed tile and of makeBotMove, each of which ends the
\* condition it is enabled under.
SpecDuelLive ==
    /\ SpecDuelFair
    /\ []<>~settingsDue
    /\ []<>~playerToMove
    /\ []<>~timerReady

(***************************************************************************)
(* SpecSession: one player's successive rounds.  The page shows            *)
(* SoloMinesGame or MultiplayerMinesGame; Back (onBack) leaves the game    *)
(* shown, which is mounted anew when the player returns.  gblCalls logs    *)
(* the generateBombLocations call of every round started.                  *)
(***************************************************************************)
SessionBombCount == TotalTiles - 1
SessionSettings == Settings(SessionBombCount, 1)
\* The settings of a session's duels: a joined game's, or the lobby's default.
SessionSettingsInputs == {SessionSettings, Settings(3, 1)}
roundLogged(call) == Append(gblCalls, [args |-> call, result |-> Invoke(call)])
soloShown == duel = Unmounted
soloMounted ==
    /\ solo' = initialState
    /\ soloServerSeed' = <<>>
    /\ prevGameState' = "betting"
    /\ soloEffect' = FALSE

\* <Button variant="outline" onClick={onBack}>: the solo game is left, in
\* whatever state, and mounted anew.
soloBack ==
    /\ soloShown /\ ~soloEffect
    /\ soloMounted
    /\ soloOp' = [op |-> "onBack", arg |-> 0, changed |-> solo # initialState]
    /\ UNCHANGED <<statsVars, duelVars, shuffleVars, multVars>>

\* Start of a solo round, logged.
sessionInitializeGame(newServerSeed) ==
    /\ soloShown /\ Len(gblCalls) < MaxRounds
    /\ initializeGame(newServerSeed)
    /\ gblCalls' = IF invalidBet(solo.betAmount) THEN gblCalls
                   ELSE roundLogged(soloRoundCall(newServerSeed))
    /\ UNCHANGED <<gblArgs, gblResult, multVars, duelVars>>

\* The page shows MultiplayerMinesGame with the lobby's settings:
\* useState(() => createInitialState(settings)), both effects due.
mountDuel(settings, gameSeed) ==
    /\ soloShown /\ ~soloEffect
    /\ Len(gblCalls) < MaxRounds
    /\ soloMounted
    /\ soloOp' = NoOp
    /\ duelSettings' = settings
    /\ duel' = createInitialState(settings, gameSeed)
    /\ duelRender' = createInitialState(settings, gameSeed)
    /\ coinflip' = NoCoinflip
    /\ duelEffects' = {"settings", "turn"}
    /\ botTimer' = NoTimer
    /\ duelHung' = FALSE
    /\ duelOp' = NoDuelOp
    /\ UNCHANGED <<statsVars, shuffleVars, multVars>>

\* The settings effect of a duel mount, its call logged.
sessionSettingsEffect(gameSeed, newServerSeed) ==
    /\ settingsEffect(gameSeed, newServerSeed)
    /\ gblCalls' = IF settingsSkipped THEN gblCalls
                   ELSE roundLogged(duelRoundCall(newServerSeed))
    /\ UNCHANGED <<gblArgs, gblResult, multVars, soloVars>>

\* onClick={onBack} of the duel (Back, the dialog, Back to Lobby): the
\* component unmounts, the turn effect's cleanup clears the bot's timer.
duelBack ==
    /\ duel # Unmounted /\ duelEffects = {} /\ ~duelHung
    /\ duelSettings' = NoSettings
    /\ duel' = Unmounted
    /\ duelRender' = Unmounted
    /\ coinflip' = NoCoinflip
    /\ duelEffects' = {}
    /\ botTimer' = NoTimer
    /\ duelHung' = FALSE
    /\ duelOp' = NoDuelOp
    /\ UNCHANGED <<statsVars, soloVars, shuffleVars, multVars>>

InitSession ==
    /\ InitSolo
    /\ userProfile = [clientSeed |-> <<>>]

NextSession ==
    \/ sessionInitializeGame(SeedA)
    \/ \E t \in ClickTiles : soloShown /\ revealTile(t) /\ UNCHANGED soloRest
    \/ soloShown /\ cashOut /\ UNCHANGED soloRest
    \/ soloShown /\ resetGame /\ UNCHANGED soloRest
    \/ soloShown /\ finishEffect /\ UNCHANGED soloRest
    \/ soloBack
    \/ \E settings \in SessionSettingsInputs : mountDuel(settings, 1)
    \/ sessionSettingsEffect(1, SeedA)
    \/ turnEffect /\ UNCHANGED duelRest
    \/ \E t \in TileIds : handleTileClick(t) /\ UNCHANGED duelRest
    \/ \E r \in RandomDraws : makeBotMove(r) /\ UNCHANGED duelRest
    \/ \E w \in Sides : handleCoinflipComplete(w) /\ UNCHANGED duelRest
    \/ duelBack

SpecSession == InitSession /\ [][NextSession]_vars

(***************************************************************************)
(* Properties.                                                             *)
(***************************************************************************)
IsBijection(t) == DOMAIN t = TileIds /\ {t[k] : k \in TileIds} = TileIds
Distinct(list) == \A a, b \in 1..Len(list) : a # b => list[a] # list[b]
ValidCall(a) ==
    /\ a.kind = "call"
    /\ a.serverSeed # <<>> /\ a.clientSeed # <<>>
    /\ ~isNaN(a.nonce)
    /\ a.bombCount \in 1..(TotalTiles - 1)
ShuffledOf(a) ==
    IF a.copy = "solo" THEN Solo_shuffled(a.serverSeed, a.clientSeed, a.nonce)
    ELSE Duel_shuffled(a.serverSeed, a.clientSeed, a.nonce)
IsPrefixOf(list, t) == \A k \in 1..Len(list) : list[k] = t[k - 1]

\* C1: for valid arguments (non-empty seeds, numeric nonce, bombCount in
\* 1..24) and for the loop entered with any first digest, the shuffled array
\* is a bijection on 0..24, and the returned list is its first bombCount
\* entries: pairwise distinct and each in 0..24.
C1_ShuffleIsBijection ==
    gblResult.done =>
        /\ gblArgs.kind = "loop" => IsBijection(gblResult.value)
        /\ ValidCall(gblArgs) =>
              /\ IsBijection(ShuffledOf(gblArgs))
              /\ Len(gblResult.value) = gblArgs.bombCount
              /\ IsPrefixOf(gblResult.value, ShuffledOf(gblArgs))
              /\ Distinct(gblResult.value)
              /\ \A k \in 1..Len(gblResult.value) : gblResult.value[k] \in TileIds
C1_Witness ==
    /\ gblResult.done
    /\ ValidCall(gblArgs)
    /\ gblArgs.bombCount = TotalTiles - 1
    /\ gblArgs.copy = "duel"
    /\ gblResult.value # [k \in 1..(TotalTiles - 1) |-> k - 1]

SameInputs(a, b) ==
    /\ a.serverSeed = b.serverSeed /\ a.clientSeed = b.clientSeed
    /\ a.nonce = b.nonce /\ a.bombCount = b.bombCount
\* C2: any two logged invocations of generateBombLocations with identical
\* (serverSeed, clientSeed, nonce, bombCount) returned identical lists,
\* whichever copy was called and whatever was invoked before.
C2_Deterministic ==
    \A i, j \in 1..Len(gblCalls) :
        SameInputs(gblCalls[i].args, gblCalls[j].args)
            => gblCalls[i].result = gblCalls[j].result
C2_Witness ==
    /\ Len(gblCalls) = 2
    /\ SameInputs(gblCalls[1].args, gblCalls[2].args)
    /\ gblCalls[1].args.copy = "solo" /\ gblCalls[2].args.copy = "duel"
    /\ gblCalls[1].args.bombCount = 5
    /\ Len(gblCalls[2].result) = 5

\* C4: calculateMultiplier(0, bombCount) is exactly 0.99 = 99/100.
C4_MultiplierAtZero ==
    (mOut.done /\ mArgs[1] = 0) => mOut.value = <<99, 100>>
C4_Witness == mOut.done /\ mArgs = <<0, TotalTiles - 1>> /\ mOut.value = <<99, 100>>

\* C5: for a fixed bombCount, one more safe reveal (within 0..25-bombCount)
\* gives a strictly larger multiplier.
C5_IncreasingInSafe ==
    (mPrev.set /\ mPrev.args[2] = mArgs[2] /\ mArgs[1] = mPrev.args[1] + 1)
        => FracLess(mPrev.out, mOut.value)
C5_Witness ==
    /\ mPrev.set /\ mPrev.args = <<19, 5>> /\ mArgs = <<20, 5>>
    /\ FracLess(mPrev.out, mOut.value)

\* C6 as stated: for a fixed safeRevealed, 0 included, a larger bombCount
\* gives a strictly larger multiplier.
C6_IncreasingInBombs_Original ==
    (mPrev.set /\ mPrev.args[1] = mArgs[1] /\ mPrev.args[2] < mArgs[2])
        => FracLess(mPrev.out, mOut.value)
\* C6 amended: for a fixed safeRevealed >= 1 a larger bombCount gives a
\* strictly larger multiplier; for safeRevealed = 0 the multiplier is the
\* same for every bombCount.
C6_IncreasingInBombs ==
    (mPrev.set /\ mPrev.args[1] = mArgs[1] /\ mPrev.args[2] < mArgs[2])
        => IF mArgs[1] >= 1 THEN FracLess(mPrev.out, mOut.value)
           ELSE mPrev.out = mOut.value
C6_Witness ==
    /\ mPrev.set /\ mPrev.args = <<1, 1>> /\ mArgs = <<1, TotalTiles - 1>>
    /\ FracLess(mPrev.out, mOut.value)

(***************************************************************************)
(* Solo steps.  Every handler sets soloOp; a step that leaves soloOp as it *)
(* is and changes something is the finish effect.                          *)
(***************************************************************************)
soloRound == <<solo, soloServerSeed, prevGameState, soloEffect, statsVars>>
BombsOf(tiles) == {i \in DOMAIN tiles : tiles[i].isBomb}
RevealedOf(tiles) == {i \in DOMAIN tiles : tiles[i].isRevealed}
LastGame == games[Len(games)]

\* C7: initializeGame with betAmount <= 0 changes nothing (still betting,
\* no server seed set, no tiles bound); with betAmount > 0 it sets a server
\* seed drawn for this round, binds the layout generateBombLocations gives
\* for it and moves betting -> playing with safeRevealed = 0 and every tile
\* unrevealed.
C7_Start ==
    [][(soloOp' # soloOp /\ soloOp'.op = "initializeGame") =>
          IF solo.betAmount <= 0
          THEN /\ UNCHANGED soloRound
               /\ solo.gameState = "betting"
          ELSE /\ solo.gameState = "betting" /\ solo'.gameState = "playing"
               /\ \E ss \in ServerSeedPool :
                     /\ soloServerSeed' = ss
                     /\ solo'.tiles = boardOf(positionSet(
                            Solo_generateBombLocations(ss, clientSeedOr(NotAvailable),
                                totalGames + 1, solo.bombCount)))
               /\ Cardinality(BombsOf(solo'.tiles)) = solo.bombCount
               /\ solo'.safeRevealed = 0
               /\ RevealedOf(solo'.tiles) = {}
               /\ solo'.betAmount = solo.betAmount
               /\ solo'.bombCount = solo.bombCount]_vars
C7_Witness ==
    /\ soloOp.op = "initializeGame" /\ ~soloOp.changed
    /\ solo.betAmount = 0 /\ solo.gameState = "betting"
    /\ Len(games) = 1

\* C9: revealTile changes nothing when the round is not playing or the
\* tile is already revealed; a reveal of an unrevealed safe tile adds
\* exactly one to safeRevealed (so the same tile twice adds one).
C9_RevealNoOp ==
    [][(soloOp' # soloOp /\ soloOp'.op = "revealTile") =>
          IF solo.gameState # "playing" \/ solo.tiles[soloOp'.arg].isRevealed
          THEN UNCHANGED soloRound
          ELSE ~solo.tiles[soloOp'.arg].isBomb
                  => solo'.safeRevealed = solo.safeRevealed + 1]_vars
C9_Witness ==
    /\ soloOp.op = "revealTile" /\ ~soloOp.changed
    /\ solo.gameState = "playing"
    /\ solo.tiles[soloOp.arg].isRevealed /\ ~solo.tiles[soloOp.arg].isBomb
    /\ solo.safeRevealed = 1

\* C10: in playing, the reveal of an unrevealed bomb tile moves the round to
\* finished with every tile revealed, and the finish effect that follows
\* records a loss: multiplier 0 and netProfit = -betAmount.
C10_Bust ==
    [][/\ (/\ soloOp' # soloOp /\ soloOp'.op = "revealTile"
           /\ solo.gameState = "playing"
           /\ ~solo.tiles[soloOp'.arg].isRevealed
           /\ solo.tiles[soloOp'.arg].isBomb)
          => /\ solo'.gameState = "finished"
             /\ RevealedOf(solo'.tiles) = TileIds
             /\ soloEffect' /\ prevGameState' = "playing"
       /\ (/\ soloOp' = soloOp /\ soloOp.op = "revealTile"
           /\ prevGameState = "playing" /\ solo.gameState = "finished"
           /\ solo.tiles[soloOp.arg].isBomb)
          => /\ Len(games') = Len(games) + 1
             /\ games'[Len(games')].multiplier = <<0, 1>>
             /\ games'[Len(games')].netProfit = <<0 - solo.betAmount, 1>>
             /\ games'[Len(games')].wageredAmount = solo.betAmount]_vars
C10_Witness ==
    /\ games # <<>>
    /\ soloOp.op = "revealTile" /\ soloOp.changed
    /\ solo.tiles[soloOp.arg].isBomb
    /\ solo.gameState = "finished" /\ prevGameState = "finished"
    /\ solo.safeRevealed >= 2
    /\ LastGame.multiplier = <<0, 1>>
    /\ LastGame.netProfit = <<0 - solo.betAmount, 1>>

(***************************************************************************)
(* Duel rounds.                                                            *)
(***************************************************************************)
\* C3 as stated: when settings.bombs is not a number, generateBombLocations
\* returns the empty list and the round is not made playable: no move is
\* ever accepted on a board whose mines count as placed and that has no
\* bomb.
C3_InvalidInputFatal ==
    (duelSettings.given /\ isNaN(duelSettings.bombs))
        => ~(duel.minesPlaced /\ BombsOf(duel.tiles) = {} /\ movesMade(duel) > 0)

\* C8 as stated: with settings.bombs a number outside 1..24, round creation
\* is aborted: no move is ever accepted in the round.
C8_OutOfRangeAborted ==
    (duelSettings.given /\ ~isNaN(duelSettings.bombs)
        /\ duelSettings.bombs \notin 1..(TotalTiles - 1))
        => movesMade(duel) = 0

(***************************************************************************)
(* Solo rounds: the end of a round and its record.                         *)
(***************************************************************************)
\* The finish effect runs its body: the round went from playing to finished.
soloSettles == soloEffect /\ prevGameState = "playing" /\ solo.gameState = "finished"
\* The step is the finish effect's.
soloEffectStep == soloOp' = soloOp /\ soloEffect
\* The reveal that ended the round was of a safe tile: the board was cleared.
boardCleared ==
    /\ soloOp.op = "revealTile" /\ soloOp.changed
    /\ ~solo.tiles[soloOp.arg].isBomb
    /\ solo.safeRevealed = TotalTiles - solo.bombCount
winRecord(state) ==
    [multiplier |-> calculateMultiplier(state.safeRevealed, state.bombCount),
     netProfit |-> FracSub(FracMul(<<state.betAmount, 1>>,
                               calculateMultiplier(state.safeRevealed, state.bombCount)),
                           <<state.betAmount, 1>>)]

\* C11 as stated: a safe reveal that makes safeRevealed = 25 - bombCount
\* moves the round to finished with every tile revealed, and the record the
\* finish effect then emits is a win at calculateMultiplier(safeRevealed,
\* bombCount) with netProfit = betAmount * multiplier - betAmount.
C11_BoardClearWin ==
    [][/\ (/\ soloOp' # soloOp /\ soloOp'.op = "revealTile"
           /\ solo.gameState = "playing"
           /\ ~solo.tiles[soloOp'.arg].isRevealed /\ ~solo.tiles[soloOp'.arg].isBomb
           /\ solo.safeRevealed + 1 = TotalTiles - solo.bombCount)
          => /\ solo'.gameState = "finished"
             /\ RevealedOf(solo'.tiles) = TileIds
       /\ (soloEffectStep /\ soloSettles /\ boardCleared)
          => /\ Len(games') = Len(games) + 1
             /\ games'[Len(games')].multiplier = winRecord(solo).multiplier
             /\ games'[Len(games')].netProfit = winRecord(solo).netProfit]_vars

\* C12: cashOut changes nothing unless the round is playing with
\* safeRevealed >= 1; accepted, it moves the round to finished (nothing else
\* of the reducer state changes), and the record the finish effect emits
\* carries multiplier = currentMultiplier = calculateMultiplier(safeRevealed,
\* bombCount) and netProfit = betAmount * multiplier - betAmount, that is a
\* payout of betAmount * currentMultiplier.
C12_CashOut ==
    [][/\ (soloOp' # soloOp /\ soloOp'.op = "cashOut") =>
            IF solo.gameState # "playing" \/ solo.safeRevealed < 1
            THEN UNCHANGED soloRound
            ELSE /\ solo' = [solo EXCEPT !.gameState = "finished"]
                 /\ solo.currentMultiplier =
                        calculateMultiplier(solo.safeRevealed, solo.bombCount)
                 /\ soloEffect' /\ prevGameState' = "playing"
       /\ (soloEffectStep /\ soloSettles /\ soloOp.op = "cashOut")
          => /\ Len(games') = Len(games) + 1
             /\ games'[Len(games')].multiplier = winRecord(solo).multiplier
             /\ games'[Len(games')].netProfit = winRecord(solo).netProfit
             /\ games'[Len(games')].wageredAmount = solo.betAmount
             /\ FracSub(games'[Len(games')].netProfit, <<0 - solo.betAmount, 1>>)
                   = FracMul(<<solo.betAmount, 1>>, solo.currentMultiplier)]_vars
C12_Witness ==
    /\ games # <<>>
    /\ soloOp.op = "cashOut" /\ soloOp.changed
    /\ solo.gameState = "finished" /\ prevGameState = "finished"
    /\ solo.safeRevealed >= 2
    /\ LastGame.multiplier = calculateMultiplier(solo.safeRevealed, solo.bombCount)
    /\ LastGame.netProfit = winRecord(solo).netProfit
    /\ FracLess(<<0, 1>>, LastGame.netProfit)

\* The layout a start binds: drawn from (seed, clientSeed, totalGames + 1).
startedBoard(seed) ==
    boardOf(positionSet(Solo_generateBombLocations(seed, clientSeedOr(NotAvailable),
                                                   totalGames + 1, solo.bombCount)))

\* C13: finished is terminal for the round.  In finished a reveal or a
\* cash-out changes nothing; a step from finished leaves the reducer state
\* and the server seed as they are or is resetGame, which gives betting with
\* a blank board; and playing is entered only from betting, by a start that
\* sets a server seed drawn for it and the layout generated from that seed
\* under a nonce above every recorded round's.
C13_FinishedTerminal ==
    [][/\ (/\ soloOp' # soloOp /\ soloOp'.op \in {"revealTile", "cashOut"}
           /\ solo.gameState = "finished")
          => UNCHANGED soloRound
       /\ solo.gameState = "finished"
          => \/ solo' = solo /\ soloServerSeed' = soloServerSeed
             \/ /\ soloOp'.op = "resetGame" /\ soloOp' # soloOp
                /\ solo'.gameState = "betting"
                /\ solo'.tiles = initialState.tiles
                /\ solo'.safeRevealed = 0
       /\ (solo'.gameState = "playing" /\ solo.gameState # "playing")
          => /\ solo.gameState = "betting"
             /\ soloOp'.op = "initializeGame"
             /\ \E seed \in ServerSeedPool :
                   soloServerSeed' = seed /\ solo'.tiles = startedBoard(seed)
             /\ \A k \in 1..Len(games) : games[k].nonce < totalGames + 1]_vars
C13_Witness ==
    /\ games # <<>>
    /\ solo.gameState = "finished" /\ prevGameState = "finished"
    /\ soloOp.op = "revealTile" /\ ~soloOp.changed
    /\ ~solo.tiles[soloOp.arg].isRevealed

\* C14: a solo round that reaches finished has its record emitted exactly
\* once, and only once the state is finished.  The step into finished leaves
\* the finish effect due with the ref at 'playing'; no handler runs before
\* it; the effect then appends one record and moves the ref to 'finished';
\* records are appended by no other step, and with the ref at 'finished'
\* (re-runs after totalGames or the profile changed) none is appended.
C14_SettledOnce ==
    [][/\ (solo.gameState = "playing" /\ solo'.gameState = "finished")
          => soloEffect' /\ prevGameState' = "playing" /\ games' = games
       /\ (solo.gameState = "finished" /\ prevGameState = "playing")
          => /\ soloEffect /\ soloOp' = soloOp
             /\ Len(games') = Len(games) + 1
             /\ SubSeq(games', 1, Len(games)) = games
             /\ prevGameState' = "finished" /\ solo' = solo
       /\ games' # games
          => solo.gameState = "finished" /\ prevGameState = "playing"
       /\ totalGames' = Len(games')]_vars
C14_Witness ==
    /\ Len(games) = 1
    /\ solo.gameState = "finished" /\ prevGameState = "finished"
    /\ soloOp.op = "profileUpdate" /\ ~soloEffect

\* The bomb set that generateBombLocations gives for a record's seed triple.
recordedLayout(record, bombCount) ==
    positionSet(Solo_generateBombLocations(record.serverSeed, record.clientSeed,
                                           record.nonce, bombCount))

\* C15 as stated: once a finished solo round is recorded, the record's
\* (serverSeed, clientSeed, nonce) and the round's bombCount reproduce the
\* bomb tiles of the board that was played, whatever happened to the
\* profile's clientSeed between start and finish.
C15_RecordReproducesLayout ==
    (solo.gameState = "finished" /\ prevGameState = "finished" /\ games # <<>>)
        => BombsOf(solo.tiles) = recordedLayout(LastGame, solo.bombCount)

(***************************************************************************)
(* Duel rounds: layout, turns, busts.                                      *)
(***************************************************************************)
\* The bomb set that generateBombLocations gives for the seed triple a duel
\* state holds.
duelSeededLayout(state) ==
    positionSet(Duel_generateBombLocations(state.serverSeed, state.clientSeed,
                                           state.nonce, state.bombCount))
validSettings == duelSettings.given /\ duelSettings.bombs \in 1..(TotalTiles - 1)

\* C16 as stated: in a duel mounted with settings (bombs in 1..24), once a
\* move has been accepted the bomb tiles on the board are those that
\* generateBombLocations gives for the serverSeed, clientSeed, nonce and
\* bombCount held in state, whichever side moved first; and every record
\* emitted carries that seed triple.
C16_DuelLayoutVerifiable ==
    (validSettings /\ movesMade(duel) > 0)
        => /\ BombsOf(duel.tiles) = duelSeededLayout(duel)
           /\ \A k \in 1..Len(games) :
                 /\ games[k].serverSeed = duel.serverSeed
                 /\ games[k].clientSeed = duel.clientSeed
                 /\ games[k].nonce = duel.nonce

\* C17 as stated: the nonces of the rounds a player starts, solo or duel,
\* in the order they are started, are strictly increasing (so no two rounds
\* share a nonce), also when an earlier round was left through Back before
\* it ended.
C17_NonceStrictlyIncreasing ==
    \A i, j \in 1..Len(gblCalls) :
        i < j => gblCalls[i].args.nonce < gblCalls[j].args.nonce

\* A step that is a call of processMove (by duelOp'.side on duelOp'.tile).
processMoveStep == duelOp' # duelOp /\ duelOp'.op = "processMove"
sideBusted(state, side) ==
    IF side = "player" THEN state.playerHasHitBomb ELSE state.opponentHasHitBomb
sideScore(state, side) ==
    IF side = "player" THEN state.playerScore ELSE state.opponentScore
tilesOf(state, side) == {i \in TileIds : state.tiles[i].revealedBy = side}

\* C18: a call of processMove made when the round is over, when the acting
\* side has busted, or when activeTurn is not the acting side leaves the
\* round state (tiles, scores, bust flags, activeTurn, gameOver, winner)
\* as it was, shows no coinflip and records no game.
C18_RejectedMoveFrame ==
    [][(/\ processMoveStep
        /\ \/ duel.gameOver
           \/ sideBusted(duel, duelOp'.side)
           \/ duel.activeTurn # duelOp'.side)
           => /\ duel' = duel
              /\ coinflip' = coinflip
              /\ games' = games /\ totalGames' = totalGames]_vars
\* The player's processMove was called on the bot's turn and returned.
C18_Witness ==
    /\ duelOp.op = "processMove" /\ duelOp.kind = "return"
    /\ ~duel.gameOver /\ duel.activeTurn # duelOp.side
    /\ movesMade(duel) > 0

\* The turn is held by a side that has busted, the round not over.
bustedHoldsTurn == duel # Unmounted /\ ~duel.gameOver /\ sideBusted(duel, duel.activeTurn)
\* C19: after every accepted move that does not end the round activeTurn is
\* the side other than the mover, and a busted side never holds the turn of
\* a round that is not over: the move after a bust that leaves the round
\* open always ends it, so the turn never comes back to the busted side,
\* which is therefore never left holding it.
C19_TurnOrder ==
    /\ [][(processMoveStep /\ duelOp'.kind = "set" /\ ~duel'.gameOver)
              => duel'.activeTurn = Other(duelOp'.side)]_vars
    /\ []~bustedHoldsTurn
\* A side busted on its move, the round went on, and the turn is with the
\* other side.
C19_Witness ==
    /\ duelOp.op = "processMove" /\ duelOp.kind = "set"
    /\ ~duel.gameOver
    /\ sideBusted(duel, duelOp.side)
    /\ duel.activeTurn = Other(duelOp.side)

\* C20: in a duel round, once a side's bust flag is set it stays set, and
\* from then on that side's score and the tiles revealed by it never change
\* (no move of it is accepted); the other side's moves are still accepted.
C20_BustPermanent ==
    [][\A side \in Sides :
          (duel # Unmounted /\ sideBusted(duel, side))
              => /\ sideBusted(duel', side)
                 /\ sideScore(duel', side) = sideScore(duel, side)
                 /\ tilesOf(duel', side) = tilesOf(duel, side)]_vars
\* After a side busted, the other side made an accepted move.
C20_Witness ==
    /\ duelOp.op = "processMove" /\ duelOp.kind = "set"
    /\ sideBusted(duel, Other(duelOp.side))
    /\ ~sideBusted(duel, duelOp.side)
    /\ duel.tiles[duelOp.tile].revealedBy = duelOp.side
    /\ \E i \in tilesOf(duel, Other(duelOp.side)) : duel.tiles[i].isBomb

(***************************************************************************)
(* Duel rounds: end rules, coinflip, settlement.                           *)
(***************************************************************************)
\* A step that is an accepted move (processMove reached setState).
acceptedMoveStep == processMoveStep /\ duelOp'.kind = "set"
\* The safe tiles revealed by moves (the reveal of all tiles at the end sets
\* no revealedBy).
safeRevealedByMoves(state) ==
    Cardinality({i \in TileIds : ~state.tiles[i].isBomb /\ state.tiles[i].revealedBy # "none"})
\* The round is over, who won is left to the coinflip shown.
coinflipPending(state, flip) == state.gameOver /\ state.winner = "none" /\ flip.show
\* Over, won by the side with strictly more safe reveals, the coinflip
\* pending when the scores are equal.
decidedByScore(state, flip) ==
    /\ state.gameOver
    /\ state.playerScore > state.opponentScore => state.winner = "player"
    /\ state.opponentScore > state.playerScore => state.winner = "opponent"
    /\ state.playerScore = state.opponentScore => coinflipPending(state, flip)

\* C21: after an accepted move that leaves 25 - bombCount safe tiles
\* revealed, the round is over, won by the side with strictly more safe
\* reveals; with equal scores it is over without a winner and the coinflip
\* is shown.
C21_AllSafeRevealed ==
    [][(acceptedMoveStep
          /\ safeRevealedByMoves(duel') = TotalTiles - duel'.bombCount)
            => decidedByScore(duel', coinflip')]_vars
\* The last safe tile was revealed with the scores equal: coinflip pending,
\* neither side busted.
C21_Witness ==
    /\ duelOp.op = "processMove" /\ duelOp.kind = "set"
    /\ safeRevealedByMoves(duel) = TotalTiles - duel.bombCount
    /\ ~duel.playerHasHitBomb /\ ~duel.opponentHasHitBomb
    /\ duel.playerScore = duel.opponentScore
    /\ coinflipPending(duel, coinflip)

\* Exactly one side has busted, and it is side.
onlyBusted(state, side) == sideBusted(state, side) /\ ~sideBusted(state, Other(side))
notAllSafe(state) == safeRevealedByMoves(state) # TotalTiles - state.bombCount

\* C22: after an accepted move that leaves safe tiles unrevealed and exactly
\* one side busted, the round is over and won by the other side when that
\* side's score is strictly higher; otherwise the round is not over and the
\* turn is with the other side.
C22_OneBust ==
    [][\A side \in Sides :
          (acceptedMoveStep /\ notAllSafe(duel') /\ onlyBusted(duel', side))
              => IF sideScore(duel', Other(side)) > sideScore(duel', side)
                 THEN duel'.gameOver /\ duel'.winner = Other(side)
                 ELSE ~duel'.gameOver /\ duel'.winner = "none"
                      /\ duel'.activeTurn = Other(side)]_vars
\* A move ended the round on a single bust: the side that did not bust is
\* ahead and wins, safe tiles left unrevealed.
C22_Witness ==
    /\ duelOp.op = "processMove" /\ duelOp.kind = "set"
    /\ notAllSafe(duel)
    /\ \E side \in Sides :
          /\ onlyBusted(duel, side)
          /\ sideScore(duel, Other(side)) > sideScore(duel, side)
          /\ duel.gameOver /\ duel.winner = Other(side)

bothBusted(state) == state.playerHasHitBomb /\ state.opponentHasHitBomb
\* C23: after an accepted move that leaves both sides busted the round is
\* over, won by the side with strictly more safe reveals; with equal scores
\* it is over without a winner and the coinflip is shown.
C23_BothBust ==
    [][(acceptedMoveStep /\ bothBusted(duel')) => decidedByScore(duel', coinflip')]_vars
\* The second side busted too, the scores equal: coinflip pending.
C23_Witness ==
    /\ duelOp.op = "processMove" /\ duelOp.kind = "set"
    /\ bothBusted(duel)
    /\ duel.tiles[duelOp.tile].isBomb
    /\ duel.playerScore = duel.opponentScore
    /\ coinflipPending(duel, coinflip)

duelWon == duel # Unmounted /\ duel.winner \in Sides
duelPending == duel # Unmounted /\ coinflipPending(duel, coinflip)
\* C24: state.winner is null, 'player' or 'opponent' (never 'tie'); once a
\* side it never changes; the winner a pending coinflip resolves to is the
\* side the coinflip drew when the tie was found; and every pending coinflip
\* comes to a winner.
C24_CoinflipResolves ==
    /\ [](duel # Unmounted => duel.winner \in Sides \cup {"none"})
    /\ [][duelWon => duel'.winner = duel.winner]_vars
    /\ [][(duelPending /\ duel'.winner # duel.winner)
             => /\ duel'.winner = coinflip.winner
                /\ coinflip.winner = coinFlipWinner(duel)
                /\ coinflip.winner \in Sides]_vars
    /\ duelPending ~> duelWon
\* A coinflip was resolved: the round's winner is the side it drew.
C24_Witness ==
    /\ duelOp.op = "handleCoinflipComplete"
    /\ duelWon /\ duel.gameOver
    /\ duel.playerScore = duel.opponentScore
    /\ duel.winner = coinflip.winner /\ ~coinflip.show

\* C25 as stated: whenever the duel round (of a bomb count in 1..24) has a
\* winner, by a regular win or by the coinflip, all 25 tiles are revealed.
C25_WinnerAllRevealed ==
    (duelWon /\ (duelSettings.given => validSettings))
        => \A i \in TileIds : duel.tiles[i].isRevealed

\* The record of a duel won by winner at stake betAmount.
settles(record, winner, betAmount) ==
    /\ record.gameMode = "1v1"
    /\ record.wageredAmount = betAmount
    /\ IF winner = "player"
       THEN record.multiplier = <<2, 1>> /\ record.netProfit = <<betAmount, 1>>
       ELSE record.multiplier = <<0, 1>> /\ record.netProfit = <<0 - betAmount, 1>>
\* C26: a duel round has emitted one record when it has a winner and none
\* before (none while the coinflip is pending, never two), the round being
\* over when the record exists; the record has multiplier 2 and netProfit
\* +betAmount when the player won, multiplier 0 and netProfit -betAmount
\* when the opponent did.
C26_DuelSettledOnce ==
    duel # Unmounted
        => /\ Len(games) = (IF duelWon THEN 1 ELSE 0)
           /\ totalGames = Len(games)
           /\ games # <<>> => duel.gameOver /\ settles(games[1], duel.winner, duel.betAmount)
\* A regular win of the player, recorded by the move that ended the round.
C26_Witness ==
    /\ duelOp.op = "processMove" /\ duelOp.kind = "set"
    /\ duelWon /\ duel.winner = "player"
    /\ Len(games) = 1 /\ games[1].multiplier = <<2, 1>>
    /\ games[1].netProfit = <<duel.betAmount, 1>>

(***************************************************************************)
(* Duel rounds: mines placed on the first move, the bot's choice, moves    *)
(* and snapshots.                                                          *)
(***************************************************************************)
\* The state the closure of a side's handler holds: the latest render for a
\* click, the render that set the timer for the bot.
closureOf(side) == IF side = "player" THEN duelRender ELSE botTimer.snap
\* A step that is an accepted move on a state without mines: processMove
\* calls placeMines.
placingMoveStep == acceptedMoveStep /\ ~closureOf(duelOp'.side).minesPlaced

\* C27: a move on a state without mines whose bombCount is in 1..24 is not
\* held up by placeMines; it leaves exactly bombCount bomb tiles, the tile
\* moved on not among them, so it sets no bust flag and scores; and in a
\* round without settings the bombs, once placed, never change.
C27_DeferredLayout ==
    /\ [][(processMoveStep /\ ~closureOf(duelOp'.side).minesPlaced
             /\ closureOf(duelOp'.side).bombCount \in 1..(TotalTiles - 1))
               => duelOp'.kind # "hang"]_vars
    /\ [][placingMoveStep
             => /\ duel'.minesPlaced
                /\ Cardinality(BombsOf(duel'.tiles)) = closureOf(duelOp'.side).bombCount
                /\ ~duel'.tiles[duelOp'.tile].isBomb
                /\ ~duel'.playerHasHitBomb /\ ~duel'.opponentHasHitBomb
                /\ sideScore(duel', duelOp'.side) = 1]_vars
    /\ [][(~duelSettings.given /\ duel.minesPlaced)
             => BombsOf(duel'.tiles) = BombsOf(duel.tiles)]_vars
\* A round without settings: the first move placed the three mines and a
\* later move was accepted on them.
C27_Witness ==
    /\ ~duelSettings.given
    /\ duel.minesPlaced /\ duel.serverSeed = <<>>
    /\ Cardinality(BombsOf(duel.tiles)) = 3
    /\ movesMade(duel) >= 2
    /\ duelOp.op = "processMove" /\ duelOp.kind = "set"

\* The state with the bomb layout replaced (the reveals kept).
relaid(state, bombs) ==
    [state EXCEPT !.tiles = [i \in TileIds |-> [@[i] EXCEPT !.isBomb = i \in bombs]]]
\* Layouts to compare with: no bombs, the complement, the odd tiles.
OtherLayouts(state) ==
    {{}, TileIds \ BombsOf(state.tiles), {i \in TileIds : i % 2 = 1}}
\* C28: while the bot's timer is pending, the tiles makeBotMove may move on
\* (over all values of Math.random()) are exactly the tiles unrevealed in
\* the round's state, and each value picks the same tile in a state with
\* the same reveals and another bomb layout; the bot's move is never on a
\* revealed tile.
C28_BotFairness ==
    /\ []((botTimer.set /\ duelEffects = {} /\ unrevealedTiles(botTimer.snap) # {})
            => /\ {botPick(botTimer.snap, r) : r \in RandomDraws}
                     = TileIds \ RevealedOf(duel.tiles)
               /\ \A bombs \in OtherLayouts(botTimer.snap), r \in RandomDraws :
                     botPick(relaid(botTimer.snap, bombs), r) = botPick(botTimer.snap, r))
    /\ [][(processMoveStep /\ duelOp'.side = "opponent")
             => ~duel.tiles[duelOp'.tile].isRevealed]_vars
\* The bot moved with tiles revealed and bombs still hidden on the board.
C28_Witness ==
    /\ duelOp.op = "processMove" /\ duelOp.side = "opponent" /\ duelOp.kind = "set"
    /\ movesMade(duel) >= 3
    /\ \E i \in TileIds : duel.tiles[i].isBomb /\ ~duel.tiles[i].isRevealed
    /\ ~duel.gameOver

\* Two states hold the same moves: reveals, scores, bust flags, turn.
sameMoves(a, b) ==
    /\ \A i \in TileIds : /\ a.tiles[i].revealedBy = b.tiles[i].revealedBy
                          /\ a.tiles[i].isRevealed = b.tiles[i].isRevealed
    /\ a.playerScore = b.playerScore /\ a.opponentScore = b.opponentScore
    /\ a.playerHasHitBomb = b.playerHasHitBomb
    /\ a.opponentHasHitBomb = b.opponentHasHitBomb
    /\ a.activeTurn = b.activeTurn /\ a.gameOver = b.gameOver
\* The moves of state a are all still there in state b.
movesKept(a, b) ==
    /\ \A i \in TileIds : a.tiles[i].revealedBy # "none"
          => b.tiles[i].revealedBy = a.tiles[i].revealedBy /\ b.tiles[i].isRevealed
    /\ \A side \in Sides : /\ sideScore(b, side) >= sideScore(a, side)
                           /\ sideBusted(a, side) => sideBusted(b, side)

\* C29: every accepted move, a click or the bot's delayed move, is computed
\* from a snapshot that holds the moves of the round's current state and is
\* made by the side whose turn it is; it adds exactly one move to the round
\* and keeps every earlier move's reveal, score and bust flag. So no two
\* moves are applied to the same snapshot and none is lost.
C29_MoveAtomicity ==
    [][acceptedMoveStep
          => /\ sameMoves(closureOf(duelOp'.side), duel)
             /\ duel.activeTurn = duelOp'.side
             /\ movesKept(duel, duel')
             /\ movesMade(duel') = movesMade(duel) + 1
             /\ duel'.tiles[duelOp'.tile].revealedBy = duelOp'.side]_vars
\* The bot's delayed move was applied after a move of the player, which is
\* still on the board.
C29_Witness ==
    /\ duelOp.op = "processMove" /\ duelOp.side = "opponent" /\ duelOp.kind = "set"
    /\ tilesOf(duel, "player") # {}
    /\ duel.playerScore + Cardinality({i \in tilesOf(duel, "player") : duel.tiles[i].isBomb})
          = Cardinality(tilesOf(duel, "player"))

\* A step within one solo round: the game is past betting before and after.
sameSoloRound == solo.gameState # "betting" /\ solo'.gameState # "betting"
\* A step within one duel round: the component stays mounted.
sameDuelRound == duel # Unmounted /\ duel' # Unmounted
\* C30: within a round a revealed tile stays revealed, in solo and in duel,
\* and in duel a tile's revealedBy, once a side, stays that side.
C30_RevealMonotonic ==
    /\ [][sameSoloRound
             => \A i \in TileIds : solo.tiles[i].isRevealed => solo'.tiles[i].isRevealed]_vars
    /\ [][sameDuelRound
             => \A i \in TileIds :
                   /\ duel.tiles[i].isRevealed => duel'.tiles[i].isRevealed
                   /\ duel.tiles[i].revealedBy # "none"
                        => duel'.tiles[i].revealedBy = duel.tiles[i].revealedBy]_vars
\* A duel with tiles revealed by both sides, the round decided and all
\* tiles shown.
C30_Witness ==
    /\ duel # Unmounted
    /\ tilesOf(duel, "player") # {} /\ tilesOf(duel, "opponent") # {}
    /\ duel.gameOver /\ \A i \in TileIds : duel.tiles[i].isRevealed

\* The digest h rehashed n times, each time from its hex string: n rehashes
\* are n \div 2 rehashes followed by the remaining ones. (The test h = h has
\* the value of h computed on entry, before the recursion descends.)
RECURSIVE Rehashed(_, _)
Rehashed(h, n) ==
    IF h = h /\ n = 0 THEN h
    ELSE IF n = 1 THEN SubSeq(SHA256(h), 1, DigestLen)
    ELSE Rehashed(Rehashed(h, n \div 2), n - (n \div 2))
\* Four hex characters of a digest from position at (0-based), as a number.
Hex16(digest, at) ==
    ((HexVal(digest[at + 1]) * 16 + HexVal(digest[at + 2])) * 16
         + HexVal(digest[at + 3])) * 16 + HexVal(digest[at + 4])
\* The 8 hex characters at offset (i mod 8) * 8 of a digest as an unsigned
\* 32-bit number, given as its high and low 16-bit halves.
segmentOf(digest, i) ==
    <<Hex16(digest, (i % 8) * 8), Hex16(digest, (i % 8) * 8 + 4)>>
\* The r of step i: read from the first digest rehashed 24 - i times.
stepDraw(first, i) == segmentOf(Rehashed(first, (TotalTiles - 1) - i), i)
\* r mod m for r = hi * 2^16 + lo.
drawMod(r, m) == ((r[1] % m) * (65536 % m) + (r[2] % m)) % m
\* The entries at i and j exchanged.
exchange(tiles, i, j) == (i :> tiles[j]) @@ (j :> tiles[i]) @@ tiles
\* The reference Fisher-Yates, steps hi down to lo: step i exchanges the
\* entries at i and at r_i mod (i + 1). The steps hi..lo are the steps above
\* the middle followed by the steps from the middle down. (The test
\* tiles = tiles has the array computed on entry.)
RECURSIVE referenceShuffle(_, _, _, _)
referenceShuffle(tiles, hi, lo, first) ==
    IF tiles = tiles /\ hi < lo THEN tiles
    ELSE IF hi = lo
    THEN exchange(tiles, hi, drawMod(stepDraw(first, hi), hi + 1))
    ELSE referenceShuffle(
             referenceShuffle(tiles, hi, ((hi + lo) \div 2) + 1, first),
             (hi + lo) \div 2, lo, first)
referenceOf(first) == referenceShuffle(IdentityTiles, TotalTiles - 1, 1, first)
\* C31: the loop of generateBombLocations, entered with any first digest,
\* returns what a reference Fisher-Yates returns when its step i (24 down to
\* 1) exchanges positions i and r mod (i + 1), r being the 8 hex characters
\* at offset (i mod 8) * 8 of the first digest rehashed 24 - i times read as
\* an unsigned 32-bit integer; a call with valid arguments returns the first
\* bombCount entries of that reference run from the hash of the combined seed.
C31_ShuffleSteps ==
    gblResult.done =>
        /\ gblArgs.kind = "loop" => gblResult.value = referenceOf(gblArgs.hash)
        /\ ValidCall(gblArgs) =>
              /\ Len(gblResult.value) = gblArgs.bombCount
              /\ IsPrefixOf(gblResult.value,
                     referenceOf(SHA256(combinedSeed(gblArgs.serverSeed,
                                     gblArgs.clientSeed, gblArgs.nonce))))
\* The solo loop has run from a digest whose rehash differs from it, its
\* steps 24 and 23 drew different numbers, and tiles have moved.
C31_Witness ==
    /\ gblResult.done
    /\ gblArgs.kind = "loop" /\ gblArgs.copy = "solo"
    /\ Rehashed(gblArgs.hash, 1) # gblArgs.hash
    /\ stepDraw(gblArgs.hash, TotalTiles - 1) # stepDraw(gblArgs.hash, TotalTiles - 2)
    /\ gblResult.value # IdentityTiles

\* The step is a reveal, in playing, of an unrevealed safe tile that leaves
\* another safe tile unrevealed.
safeRevealStep ==
    /\ soloOp' # soloOp /\ soloOp'.op = "revealTile"
    /\ solo.gameState = "playing"
    /\ ~solo.tiles[soloOp'.arg].isRevealed
    /\ ~solo.tiles[soloOp'.arg].isBomb
    /\ \E k \in TileIds \ {soloOp'.arg} :
          ~solo.tiles[k].isBomb /\ ~solo.tiles[k].isRevealed
\* C32: in playing, the reveal of an unrevealed non-bomb tile that does not
\* clear the board keeps the round in playing, marks that tile and no other
\* revealed, adds exactly one to safeRevealed, sets currentMultiplier to
\* calculateMultiplier(new safeRevealed, bombCount) and leaves betAmount and
\* bombCount as they were.
C32_SafeReveal ==
    [][safeRevealStep
          => /\ solo'.gameState = "playing"
             /\ solo'.tiles = [solo.tiles EXCEPT ![soloOp'.arg].isRevealed = TRUE]
             /\ solo'.safeRevealed = solo.safeRevealed + 1
             /\ solo'.currentMultiplier
                   = calculateMultiplier(solo.safeRevealed + 1, solo.bombCount)
             /\ solo'.betAmount = solo.betAmount
             /\ solo'.bombCount = solo.bombCount]_vars
\* A second safe tile has just been revealed and the round goes on.
C32_Witness ==
    /\ soloOp.op = "revealTile" /\ soloOp.changed
    /\ solo.gameState = "playing"
    /\ solo.safeRevealed = 2
    /\ solo.tiles[soloOp.arg].isRevealed /\ ~solo.tiles[soloOp.arg].isBomb
    /\ Cardinality(RevealedOf(solo.tiles)) = 2
    /\ solo.currentMultiplier = calculateMultiplier(2, solo.bombCount)

\* The finish effect is about to compute a payout: the round went from
\* playing to finished and no revealed tile is a bomb.
payoutDue ==
    /\ soloSettles
    /\ ~\E i \in TileIds : solo.tiles[i].isBomb /\ solo.tiles[i].isRevealed
\* C33: in playing or finished with safeRevealed >= 1, currentMultiplier is
\* calculateMultiplier(safeRevealed, bombCount); in betting, and in playing
\* with safeRevealed = 0, it is 1.0 while calculateMultiplier(0, bombCount)
\* is 0.99; and no payout is computed from that 1.0: when the finish effect
\* computes a payout safeRevealed >= 1, and no record carries multiplier 1.0.
C33_MultiplierState ==
    /\ (solo.gameState \in {"playing", "finished"} /\ solo.safeRevealed >= 1)
          => solo.currentMultiplier
                = calculateMultiplier(solo.safeRevealed, solo.bombCount)
    /\ (solo.gameState = "betting"
           \/ (solo.gameState = "playing" /\ solo.safeRevealed = 0))
          => /\ solo.currentMultiplier = <<1, 1>>
             /\ calculateMultiplier(0, solo.bombCount) = <<99, 100>>
    /\ payoutDue => solo.safeRevealed >= 1 /\ solo.currentMultiplier # <<1, 1>>
    /\ \A k \in 1..Len(games) : games[k].multiplier # <<1, 1>>
\* A round cashed out after two safe reveals and recorded with the
\* multiplier of those two reveals.
C33_Witness ==
    /\ soloOp.op = "cashOut" /\ soloOp.changed
    /\ solo.gameState = "finished" /\ solo.safeRevealed = 2
    /\ games # <<>>
    /\ LastGame.multiplier = calculateMultiplier(2, solo.bombCount)
    /\ LastGame.multiplier = solo.currentMultiplier

\* One of the three end rules holds of the round as its moves left it: all
\* safe tiles revealed, one side busted and strictly behind, or both busted.
endRuleHolds(state) ==
    \/ jsStrictEq(safeRevealedByMoves(state), jsMinus(TotalTiles, state.bombCount))
    \/ \E side \in Sides :
          sideBusted(state, side)
              /\ sideScore(state, Other(side)) > sideScore(state, side)
    \/ bothBusted(state)
duelLive == duel # Unmounted /\ ~duel.gameOver
\* C34 as stated: in every state with gameOver = false fewer than
\* 25 - bombCount safe tiles are revealed, at most one side has busted, and
\* a side that has busted has a score greater than or equal to the other
\* side's; and an accepted move leaves the round over exactly when one of
\* the three end rules holds after it.
C34_NonTerminal ==
    /\ [](duelLive
            => /\ jsLess(safeRevealedByMoves(duel), jsMinus(TotalTiles, duel.bombCount))
               /\ ~bothBusted(duel)
               /\ \A side \in Sides :
                     sideBusted(duel, side)
                         => sideScore(duel, side) >= sideScore(duel, Other(side)))
    /\ [][acceptedMoveStep => (duel'.gameOver <=> endRuleHolds(duel'))]_vars
\* The same for rounds mounted without settings or with settings whose bombs
\* are in 1..24: there the invariant and the equivalence hold.
C34_NonTerminalValid ==
    /\ []((duelLive /\ (duelSettings.given => validSettings))
            => /\ safeRevealedByMoves(duel) < TotalTiles - duel.bombCount
               /\ ~bothBusted(duel)
               /\ \A side \in Sides :
                     sideBusted(duel, side)
                         => sideScore(duel, side) >= sideScore(duel, Other(side)))
    /\ [][(acceptedMoveStep /\ (duelSettings.given => validSettings))
             => (duel'.gameOver <=> endRuleHolds(duel'))]_vars

\* The tiles a side revealed by its moves that are safe, and that are bombs.
safeTilesOf(state, side) == {i \in tilesOf(state, side) : ~state.tiles[i].isBomb}
bombTilesOf(state, side) == {i \in tilesOf(state, side) : state.tiles[i].isBomb}
\* a <= b as JavaScript compares numbers: false when either is NaN.
jsLessEq(a, b) == ~isNaN(a) /\ ~isNaN(b) /\ toNumber(a) <= toNumber(b)
\* The scores and bust flags are those the board's revealedBy marks give.
scoresAccount(state) ==
    /\ \A side \in Sides :
          /\ sideScore(state, side) = Cardinality(safeTilesOf(state, side))
          /\ sideBusted(state, side) <=> bombTilesOf(state, side) # {}
    /\ jsLessEq(state.playerScore + state.opponentScore,
                jsMinus(TotalTiles, state.bombCount))
scoresKept(old, new) ==
    new.playerScore >= old.playerScore /\ new.opponentScore >= old.opponentScore
\* C35 as stated: in every state of a duel round playerScore is the number
\* of non-bomb tiles with revealedBy = player, opponentScore the number with
\* revealedBy = opponent, each bust flag is true exactly when a bomb tile
\* has revealedBy equal to that side, and playerScore + opponentScore is at
\* most 25 - bombCount; and no step of the round decreases a score.
C35_ScoreAccounting ==
    /\ [](duel # Unmounted => scoresAccount(duel))
    /\ [][sameDuelRound => scoresKept(duel, duel')]_vars
\* The same for rounds mounted without settings or with settings whose bombs
\* are in 1..24.
C35_ScoreAccountingValid ==
    /\ []((duel # Unmounted /\ (duelSettings.given => validSettings))
             => scoresAccount(duel))
    /\ [][sameDuelRound => scoresKept(duel, duel')]_vars

\* The side whose move processMove would accept on some unrevealed tile,
\* called on the given state.
canMove(state, side) ==
    \E t \in unrevealedTiles(state) : processMove(state, t, side).kind = "set"
\* The round can go on: an effect is due, the player's click would be
\* accepted, or the bot's timer is set and its move would be accepted.
canGoOn ==
    \/ duelEffects # {}
    \/ canMove(duelRender, "player")
    \/ botTimer.set /\ canMove(botTimer.snap, "opponent")
\* The round explored to its last move: MaxDuelMoves tiles revealed by moves.
roundCut == movesMade(duel) >= MaxDuelMoves
====
